---- MODULE Spec2Model ----
(***************************************************************************)
(* A model of ziw.js (the stateful runtime, src/ziw.js lines 29-654): the  *)
(* component registry, the script loader, the event queue, the capture     *)
(* phase dispatch, the per-element instance store and the jsdata / jsfor / *)
(* jsif bindings.  Every function of the runtime is an operator from a     *)
(* runtime state record to a runtime state record; every action of the     *)
(* model is one entry point of the runtime (an API call, a DOM event, a    *)
(* script load or error event, an observer or idle callback).              *)
(***************************************************************************)
EXTENDS Integers, Sequences, FiniteSets, TLC

VARIABLES
  page,               \* which document the runtime runs in (fixed by Init)
  componentRegistry,  \* Map<string, componentDef>
  activeEventTypes,   \* Set<string>
  listeners,          \* document.addEventListener calls made, per event type
  pendingLoads,       \* Map<string, Promise>; a promise is its script's index
  scripts,            \* the <script> elements appended to document.head
  eventQueue,         \* Array of buffered events
  visibilityObserver, \* the shared IntersectionObserver and what it observes
  idleCallbacks,      \* callbacks handed to requestIdleCallback, not yet run
  instanceStore,      \* WeakMap<Element, {state, prev}>
  forTemplates,       \* WeakMap<Element, Element>
  ifBindingsStore,    \* WeakMap<Element, Array<binding>>
  dom,                \* the mutable part of the document
  log                 \* what the last step called and did, in order

vars == <<page, componentRegistry, activeEventTypes, listeners, pendingLoads,
          scripts, eventQueue, visibilityObserver, idleCallbacks,
          instanceStore, forTemplates, ifBindingsStore, dom, log>>

(***************************************************************************)
(* Bounds of the model.                                                    *)
(***************************************************************************)
MaxQueue == 2
MaxScripts == 2
MaxIdle == 1
MaxMarkers == 1
MaxListeners == 2

(***************************************************************************)
(* JavaScript values.  Every value is a record of the same shape; arrays   *)
(* and objects carry a reference identity (ref), primitives do not.        *)
(***************************************************************************)
EmptyMap == [k \in {} |-> 0]

Val(t, n, s, ref, items, fields) ==
  [t |-> t, n |-> n, s |-> s, ref |-> ref, items |-> items, fields |-> fields]
Num(i) == Val("number", i, <<>>, 0, <<>>, EmptyMap)
NaN == Val("NaN", 0, <<>>, 0, <<>>, EmptyMap)
Bool(b) == Val("boolean", IF b THEN 1 ELSE 0, <<>>, 0, <<>>, EmptyMap)
Str(cs) == Val("string", 0, cs, 0, <<>>, EmptyMap)
Arr(r, items) == Val("array", 0, <<>>, r, items, EmptyMap)
Obj(r, fields) == Val("object", 0, <<>>, r, <<>>, fields)
Undefined == Val("undefined", 0, <<>>, 0, <<>>, EmptyMap)

\* typeof v
TypeOf(v) ==
  CASE v.t \in {"number", "NaN"} -> "number"
    [] v.t \in {"array", "object"} -> "object"
    [] OTHER -> v.t

\* a === b
StrictEq(a, b) ==
  /\ a.t = b.t
  /\ a.t # "NaN"
  /\ IF a.t \in {"array", "object"} THEN a.ref = b.ref
     ELSE a.n = b.n /\ a.s = b.s

\* !!v
Truthy(v) ==
  CASE v.t = "number" -> v.n # 0
    [] v.t = "boolean" -> v.n = 1
    [] v.t = "string" -> v.s # <<>>
    [] v.t \in {"array", "object"} -> TRUE
    [] OTHER -> FALSE

IsArray(v) == v.t = "array"

\* Decimal digits of a natural number, as a sequence of characters.
Digit(d) == <<"0", "1", "2", "3", "4", "5", "6", "7", "8", "9">>[d + 1]
RECURSIVE Digits(_)
Digits(i) == IF i < 10 THEN <<Digit(i)>> ELSE Digits(i \div 10) \o <<Digit(i % 10)>>

RECURSIVE Join(_)
\* String(v): the text a value is written as by el.textContent = v.
ToText(v) ==
  CASE v.t = "number" -> IF v.n < 0 THEN <<"-">> \o Digits(-v.n) ELSE Digits(v.n)
    [] v.t = "NaN" -> <<"N", "a", "N">>
    [] v.t = "boolean" -> IF v.n = 1 THEN <<"t", "r", "u", "e">>
                          ELSE <<"f", "a", "l", "s", "e">>
    [] v.t = "string" -> v.s
    [] v.t = "array" -> Join(v.items)
    [] v.t = "object" -> <<"[", "o", "b", "j", "e", "c", "t", "]">>
    [] OTHER -> <<>>
Join(items) ==
  IF items = <<>> THEN <<>>
  ELSE IF Len(items) = 1 THEN ToText(items[1])
  ELSE ToText(items[1]) \o <<",">> \o Join(Tail(items))

\* parseFloat(text) on texts of an optional sign and decimal digits: the value
\* of the longest numeric prefix, NaN when there is none.
DigitValue(c) == CHOOSE d \in 0..9 : Digit(d) = c
IsDigit(c) == \E d \in 0..9 : Digit(d) = c
RECURSIVE ParseDigits(_, _)
ParseDigits(cs, acc) ==
  IF cs = <<>> \/ ~IsDigit(cs[1]) THEN acc
  ELSE ParseDigits(Tail(cs), 10 * acc + DigitValue(cs[1]))
RECURSIVE ParseFloat(_)
ParseFloat(cs) ==
  IF cs = <<>> THEN NaN
  ELSE IF cs[1] = " " THEN ParseFloat(Tail(cs))
  ELSE IF cs[1] = "-" THEN
    (IF Len(cs) > 1 /\ IsDigit(cs[2]) THEN Num(-ParseDigits(Tail(cs), 0)) ELSE NaN)
  ELSE IF IsDigit(cs[1]) THEN Num(ParseDigits(cs, 0))
  ELSE NaN

(***************************************************************************)
(* JavaScript Map / WeakMap: a set of [k, v] entries.  (The order of the   *)
(* entries of a Map is never read by the runtime.)                         *)
(***************************************************************************)
MapHas(m, k) == \E e \in m : e.k = k
MapGet(m, k) == (CHOOSE e \in m : e.k = k).v
\* A map that keeps the old entry of a key next to the new one.
MapAdd(m, k, v) == m \cup {[k |-> k, v |-> v]}
MapSet(m, k, v) == {e \in m : e.k # k} \cup {[k |-> k, v |-> v]}
\* A map that forgets nothing.
MapKeep(m, k) == m
MapDelete(m, k) == {e \in m : e.k # k}

(***************************************************************************)
(* Documents.  A document is a list of element nodes in document order;    *)
(* node 0 is the document itself.  The jsfor containers hold their child   *)
(* elements as values (dom.kids); the element of a jsif binding is either  *)
(* in the tree, in the content of its <template>, or detached (dom.where). *)
(***************************************************************************)
El(parent, jscomponent, jsaction, jssrc, jsload) ==
  [parent |-> parent, jscomponent |-> jscomponent, jsaction |-> jsaction,
   jssrc |-> jssrc, jsload |-> jsload, jsdata |-> "", jsfor |-> "",
   jsif |-> "", negated |-> FALSE, tag |-> "DIV"]
\* <tag jsdata= jsfor= jsif=>: a binding element; negated stands for a jsif
\* value that starts with "!", jsif for the rest of the value.
Bound(parent, tag, jsdata, jsfor, jsif, negated) ==
  [parent |-> parent, jscomponent |-> "", jsaction |-> "", jssrc |-> "",
   jsload |-> "", jsdata |-> jsdata, jsfor |-> jsfor, jsif |-> jsif,
   negated |-> negated, tag |-> tag]
\* A child element of a jsfor container: its own jsdata key and text, and its
\* descendant [jsdata] elements.
Item(jsdata, text, parts) == [jsdata |-> jsdata, text |-> text, parts |-> parts]
Li(text) == Item("", text, <<>>)

\* Action bubbling and interaction loading (README "Action bubbling"):
\* <section jscomponent=Outer><div jsaction=y>
\*   <div jscomponent=Inner jssrc=u1 jsload=interaction>
\*     <button jsaction=x><span/></button></div></div></section>
NestPage ==
  << El(0, "Outer", "", "", ""),
     El(1, "", "y", "", ""),
     El(2, "Inner", "", "u1", "interaction"),
     El(3, "", "x", "", ""),
     El(4, "", "", "", "") >>

\* The load strategies; Outer and Inner name the same script.
LazyPage ==
  << El(0, "Outer", "", "u1", ""),
     El(1, "Inner", "", "u1", "interaction"),
     El(2, "", "x", "", ""),
     El(0, "Counter", "", "u2", "visible"),
     El(0, "Counter", "", "u2", "idle") >>

\* Two instances of one stateful component; the first has text bindings and
\* the jsif pair of the README, one text binding inside its jsif element; the
\* second is a row of a list:
\* <div jscomponent=Todo><span jsdata=count>5</span>
\*   <p jsif=visible><span jsdata=count>6</span></p>
\*   <template jsif=!visible>..</template><button jsaction=x/>
\*   <span jsdata=text>true</span></div>
\* <ul jsfor=items><li jscomponent=Todo><span jsdata=count>7</span></li></ul>
BindPage ==
  << El(0, "Todo", "", "", ""),
     Bound(1, "SPAN", "count", "", "", FALSE),
     Bound(1, "P", "", "", "visible", FALSE),
     Bound(3, "SPAN", "count", "", "", FALSE),
     Bound(1, "TEMPLATE", "", "", "visible", TRUE),
     El(1, "", "x", "", ""),
     Bound(1, "SPAN", "text", "", "", FALSE),
     Bound(0, "UL", "", "items", "", FALSE),
     El(8, "Todo", "", "", ""),
     Bound(9, "SPAN", "count", "", "", FALSE) >>

\* A component with a list of its items inside a conditional:
\* <div jscomponent=Todo><section jsif=visible>
\*   <ul jsfor=items><li>a</li><li>b</li><li>c</li></ul></section>
\*   <button jsaction=x/></div>
ListPage ==
  << El(0, "Todo", "", "", ""),
     Bound(1, "SECTION", "", "", "visible", FALSE),
     Bound(2, "UL", "", "items", "", FALSE),
     El(1, "", "x", "", "") >>

\* The counter of the README, loaded on the first interaction, and one that
\* is loaded eagerly:
\* <div jscomponent=Counter jssrc=u2 jsload=interaction><button jsaction=x/></div>
\* <div jscomponent=Counter jssrc=u2 jsload=eager/>
CounterPage ==
  << El(0, "Counter", "", "u2", "interaction"),
     El(1, "", "x", "", ""),
     El(0, "Counter", "", "u2", "eager") >>

\* A row of a list that is a component with a list of its own:
\* <ul jsfor=rows><li jscomponent=Todo><span jsdata=count>7</span>
\*   <button jsaction=x/><ul jsfor=items><li>a</li><li>b</li></ul></li></ul>
RowPage ==
  << Bound(0, "UL", "", "rows", "", FALSE),
     El(1, "Todo", "", "", ""),
     Bound(2, "SPAN", "count", "", "", FALSE),
     El(2, "", "x", "", ""),
     Bound(2, "UL", "", "items", "", FALSE) >>

\* Two conditional elements of one key whose markup forms disagree:
\* <div jscomponent=Todo><p jsif=visible>..</p>
\*   <template jsif=visible>..</template><button jsaction=x/></div>
ClashPage ==
  << El(0, "Todo", "", "", ""),
     Bound(1, "P", "", "", "visible", FALSE),
     Bound(1, "TEMPLATE", "", "", "visible", FALSE),
     El(1, "", "x", "", "") >>

\* A component with a load-source and a strategy other than interaction,
\* inside a component with no load-source:
\* <div jscomponent=Outer><div jscomponent=Inner jssrc=u1 jsload=..>
\*   <button jsaction=x/></div></div>
StrategyPage(jsload) ==
  << El(0, "Outer", "", "", ""),
     El(1, "Inner", "", "u1", jsload),
     El(2, "", "x", "", "") >>

Pages ==
  <<NestPage, LazyPage, BindPage, ListPage, CounterPage, RowPage, ClashPage,
    StrategyPage("eager"), StrategyPage("visible"), StrategyPage("idle")>>
PageIds == 1..Len(Pages)
Nodes(p) == 1..Len(Pages[p])

\* The text and the jsfor children the server rendered.
InitialText(p, n) ==
  IF p = 3 /\ n = 2 THEN <<"5">>
  ELSE IF p = 3 /\ n = 4 THEN <<"6">>
  ELSE IF p = 3 /\ n = 7 THEN <<"t", "r", "u", "e">>
  ELSE IF p = 3 /\ n = 10 THEN <<"7">>
  ELSE IF p = 6 /\ n = 3 THEN <<"7">>
  ELSE <<>>
InitialKids(p, n) ==
  IF p = 4 /\ n = 3 THEN <<Li(<<"a">>), Li(<<"b">>), Li(<<"c">>)>>
  ELSE IF p = 6 /\ n = 5 THEN <<Li(<<"a">>), Li(<<"b">>)>>
  ELSE <<>>
\* The child nodes at the place of a jsif node, in order: the element itself,
\* its <template> wrapper, the comment markers put there.
ElementToken == [kind |-> "element", id |-> 0]
TemplateToken == [kind |-> "template", id |-> 0]
CommentToken(k) == [kind |-> "comment", id |-> k]
InitialSlot(p, n) ==
  IF Pages[p][n].jsif = "" THEN <<>>
  ELSE IF Pages[p][n].tag = "TEMPLATE" THEN <<TemplateToken>>
  ELSE <<ElementToken>>
InitialDom(p) ==
  [text |-> [n \in Nodes(p) |-> InitialText(p, n)],
   kids |-> [n \in Nodes(p) |-> InitialKids(p, n)],
   where |-> [n \in Nodes(p) |->
               IF Pages[p][n].tag = "TEMPLATE" THEN "content" ELSE "tree"],
   markers |-> [n \in Nodes(p) |-> 0],
   slot |-> [n \in Nodes(p) |-> InitialSlot(p, n)]]

(***************************************************************************)
(* The runtime state as one record, and the DOM accessors the runtime      *)
(* uses.                                                                   *)
(***************************************************************************)
Cur ==
  [page |-> page, componentRegistry |-> componentRegistry,
   activeEventTypes |-> activeEventTypes, listeners |-> listeners,
   pendingLoads |-> pendingLoads, scripts |-> scripts,
   eventQueue |-> eventQueue, visibilityObserver |-> visibilityObserver,
   idleCallbacks |-> idleCallbacks, instanceStore |-> instanceStore,
   forTemplates |-> forTemplates, ifBindingsStore |-> ifBindingsStore,
   dom |-> dom, log |-> <<>>]

Becomes(s) ==
  /\ page' = s.page
  /\ componentRegistry' = s.componentRegistry
  /\ activeEventTypes' = s.activeEventTypes
  /\ listeners' = s.listeners
  /\ pendingLoads' = s.pendingLoads
  /\ scripts' = s.scripts
  /\ eventQueue' = s.eventQueue
  /\ visibilityObserver' = s.visibilityObserver
  /\ idleCallbacks' = s.idleCallbacks
  /\ instanceStore' = s.instanceStore
  /\ forTemplates' = s.forTemplates
  /\ ifBindingsStore' = s.ifBindingsStore
  /\ dom' = s.dom
  /\ log' = s.log

Attr(s, n) == Pages[s.page][n]

\* n.parentElement: null (0) at the top of the document, and for an element
\* that is detached or still in the content of its <template>.
\* A <template jsif> itself always stays where the server put it; dom.where of
\* its node tells where its content element is.
Attached(s, n) == Attr(s, n).tag = "TEMPLATE" \/ s.dom.where[n] = "tree"
ParentElement(s, n) == IF Attached(s, n) THEN Attr(s, n).parent ELSE 0

\* Whether n is in the document: every node on its parent chain is attached.
RECURSIVE InDocument(_, _)
InDocument(s, n) ==
  IF n = 0 THEN TRUE
  ELSE IF Attached(s, n) THEN InDocument(s, Attr(s, n).parent)
  ELSE FALSE

\* Whether n is a descendant of root (0: the document) in the tree.
RECURSIVE IsDescendant(_, _, _)
IsDescendant(s, n, root) ==
  IF n = 0 THEN FALSE
  ELSE IF ~Attached(s, n) THEN FALSE
  ELSE IF Attr(s, n).parent = root THEN TRUE
  ELSE IsDescendant(s, Attr(s, n).parent, root)

\* The ascending list of a set of nodes: document order.
RECURSIVE InOrder(_)
InOrder(ns) ==
  IF ns = {} THEN <<>>
  ELSE LET n == CHOOSE x \in ns : \A y \in ns : x <= y
       IN <<n>> \o InOrder(ns \ {n})

\* root.querySelectorAll(selector): the descendants of root that match.
QuerySelectorAll(s, root, Matches(_)) ==
  InOrder({n \in Nodes(s.page) : IsDescendant(s, n, root) /\ Matches(n)})

\* The effects a step has on the world outside the runtime's own state.
Effect(k, el, name, actionEl, action, type, ctx) ==
  [k |-> k, el |-> el, name |-> name, actionEl |-> actionEl,
   action |-> action, type |-> type, ctx |-> ctx, event |-> 0]
Logged(s, e) == [s EXCEPT !.log = Append(@, e)]

\* seq without its i-th element.
RemoveAt(seq, i) == [j \in 1..(Len(seq) - 1) |-> IF j < i THEN seq[j] ELSE seq[j + 1]]

RECURSIVE FoldSeq(_, _, _)
\* for (i = 0; i < seq.length; i++) acc = Op(acc, seq[i])
FoldSeq(Op(_, _), acc, seq) ==
  IF seq = <<>> THEN acc ELSE FoldSeq(Op, Op(acc, Head(seq)), Tail(seq))

(***************************************************************************)
(* Component definitions: what the page's scripts pass to Ziw.register.    *)
(* A handler is named by what its body does.                               *)
(***************************************************************************)
Def(id, hasState, state, hooks, hasActions, actions) ==
  [id |-> id, hasState |-> hasState, state |-> state, init |-> hooks,
   update |-> hooks, destroy |-> hooks, hasActions |-> hasActions,
   actions |-> actions]

\* Outer of the README: it handles x and y clicks.
OuterDef ==
  Def("OuterDef", FALSE, EmptyMap, FALSE, TRUE,
      [a \in {"x", "y"} |-> [t \in {"click"} |-> "log"]])
\* InnerWidget of the README: it has no handler for x; it handles y clicks
\* and z mouseovers.
InnerDef ==
  Def("InnerDef", FALSE, EmptyMap, FALSE, TRUE,
      [a \in {"y", "z"} |-> IF a = "y" THEN [t \in {"click"} |-> "log"]
                             ELSE [t \in {"mouseover"} |-> "log"]])
\* counter.js: state { count: 0 }, no lifecycle hooks.
CounterDef ==
  Def("CounterDef", TRUE, [k \in {"count"} |-> Num(0)], FALSE, TRUE,
      [a \in {"x"} |-> [t \in {"click"} |-> "patch"]])
\* A stateful definition with every lifecycle hook.
TodoState ==
  [k \in {"count", "items", "visible"} |->
     CASE k = "count" -> Num(0)
       [] k = "items" -> Arr(100, <<>>)
       [] OTHER -> Bool(FALSE)]
TodoDef ==
  Def("TodoDef", TRUE, TodoState, TRUE, TRUE,
      [a \in {"x"} |-> [t \in {"click"} |-> "patch"]])


\* Object.keys(o), in one fixed order.
AllKeys == <<"count", "items", "visible", "text">>
Keys(o) == SelectSeq(AllKeys, LAMBDA k : k \in DOMAIN o)
\* o[k] = v
Put(o, k, v) == [x \in DOMAIN o \cup {k} |-> IF x = k THEN v ELSE o[x]]

(***************************************************************************)
(* deepClone (src/ziw.js 69-82).  A clone of an array or object is a new   *)
(* reference: the least one no live value carries.                         *)
(***************************************************************************)
RECURSIVE RefsOfSeq(_)
RECURSIVE RefsOfMap(_)
RefsOf(v) ==
  (IF v.t \in {"array", "object"} THEN {v.ref} ELSE {})
    \cup RefsOfSeq(v.items) \cup RefsOfMap(v.fields)
RefsOfSeq(vs) == IF vs = <<>> THEN {} ELSE RefsOf(Head(vs)) \cup RefsOfSeq(Tail(vs))
RefsOfMap(o) == RefsOfSeq([i \in 1..Len(Keys(o)) |-> o[Keys(o)[i]]])

LiveRefs(s) ==
  UNION {RefsOfMap(e.v.state) \cup RefsOfMap(e.v.prev) : e \in s.instanceStore}
FreshRef(used) == CHOOSE r \in 1..(Cardinality(used) + 1) :
                    r \notin used /\ \A q \in 1..(r - 1) : q \in used
RECURSIVE FreshRefs(_, _)
\* n new references, in the order they are made.
FreshRefs(used, n) ==
  IF n = 0 THEN <<>>
  ELSE <<FreshRef(used)>> \o FreshRefs(used \cup {FreshRef(used)}, n - 1)

RECURSIVE deepCloneFrom(_, _)
RECURSIVE deepCloneSeq(_, _)
\* The clone of obj and the references in use after it, given those before.
deepCloneFrom(obj, used) ==
  IF obj.t = "array" THEN
    LET r == FreshRef(used)
        inner == deepCloneSeq(obj.items, used \cup {r})
    IN [v |-> Arr(r, inner.v), used |-> inner.used]
  ELSE IF obj.t = "object" THEN
    LET r == FreshRef(used)
        ks == Keys(obj.fields)
        inner == deepCloneSeq([i \in 1..Len(ks) |-> obj.fields[ks[i]]], used \cup {r})
    IN [v |-> Obj(r, [k \in DOMAIN obj.fields |->
                        inner.v[CHOOSE i \in 1..Len(ks) : ks[i] = k]]),
        used |-> inner.used]
  ELSE [v |-> obj, used |-> used]
deepCloneSeq(vs, used) ==
  IF vs = <<>> THEN [v |-> <<>>, used |-> used]
  ELSE LET h == deepCloneFrom(Head(vs), used)
           t == deepCloneSeq(Tail(vs), h.used)
       IN [v |-> <<h.v>> \o t.v, used |-> t.used]
\* A copy that shares every nested array and mapping with its original.
ShallowCopy(s, state) == [k \in DOMAIN state |-> state[k]]
\* deepClone of a state mapping.
deepClone(s, state) ==
  LET ks == Keys(state)
      cl == deepCloneSeq([i \in 1..Len(ks) |-> state[ks[i]]], LiveRefs(s))
  IN [k \in DOMAIN state |-> cl.v[CHOOSE i \in 1..Len(ks) : ks[i] = k]]

\* What the user put into an interaction (a key pressed, a value typed), and
\* the patch a "patch" handler makes of it and of the state it is given.
Inputs == {"toggle", "touch", "count", "both", "same", "none", "one", "two"}
\* A new array: [...] or state.items.concat(...) in the handler.
NewArray(s, items) == Arr(FreshRef(LiveRefs(s)), items)
\* state.key: undefined when the state has no such key.
Get(state, k) == IF k \in DOMAIN state THEN state[k] ELSE Undefined
PatchOf(s, input, state) ==
  CASE input = "toggle" -> [k \in {"visible"} |-> Bool(~Truthy(Get(state, "visible")))]
    [] input = "touch" -> [k \in {"count"} |-> Get(state, "count")]
    [] input = "count" -> [k \in {"count"} |-> Num(1)]
    [] input = "both" -> [k \in {"count", "visible"} |->
                            IF k = "count" THEN Num(1) ELSE Get(state, "visible")]
    [] input = "same" -> [k \in {"items"} |-> Get(state, "items")]
    [] input = "none" -> [k \in {"items"} |-> NewArray(s, <<>>)]
    [] input = "one" -> [k \in {"items"} |-> NewArray(s, <<Str(<<"b">>)>>)]
    [] OTHER -> [k \in {"items"} |-> NewArray(s, <<Num(1), Num(2)>>)]

\* An array object gets new items in place: every value that is this object,
\* in the states and snapshots of the instances and in the declared states of
\* the registered definitions, has them.
MutateValue(v, ref, items) == IF v.t = "array" /\ v.ref = ref THEN Arr(ref, items) ELSE v
MutateMap(o, ref, items) == [k \in DOMAIN o |-> MutateValue(o[k], ref, items)]
MutateRef(s, ref, items) ==
  [s EXCEPT
     !.instanceStore =
        {[k |-> e.k,
          v |-> [e.v EXCEPT !.state = MutateMap(@, ref, items),
                            !.prev = MutateMap(@, ref, items)]] : e \in @},
     !.componentRegistry =
        {[k |-> e.k, v |-> [e.v EXCEPT !.state = MutateMap(@, ref, items)]] : e \in @}]
\* state[key].push(1) in a handler that was given state.
Push(s, state, key) ==
  LET arr == Get(state, key)
  IN IF arr.t = "array" THEN MutateRef(s, arr.ref, Append(arr.items, Num(1)))
     ELSE s

(***************************************************************************)
(* The instance store and the bindings (src/ziw.js 84-400).                *)
(***************************************************************************)
\* An instance that keeps no snapshot.
NoSnapshot(state, prev, hasPrev) == [state |-> state, prev |-> EmptyMap, hasPrev |-> FALSE]
Instance(state, prev, hasPrev) == [state |-> state, prev |-> prev, hasPrev |-> hasPrev]
StateOf(s, compEl) == MapGet(s.instanceStore, compEl).state
\* state[key] = v on the live state object of compEl.
PutKey(s, compEl, key, v) ==
  LET inst == MapGet(s.instanceStore, compEl)
  IN [s EXCEPT !.instanceStore =
        MapSet(@, compEl, [inst EXCEPT !.state = Put(@, key, v)])]

RECURSIVE belongsWalk(_, _, _)
belongsWalk(s, ancestor, compEl) ==
  IF ancestor # 0 /\ ancestor # compEl THEN
    IF Attr(s, ancestor).jscomponent # "" THEN FALSE
    ELSE belongsWalk(s, ParentElement(s, ancestor), compEl)
  ELSE ancestor = compEl
belongsToComponent(s, el, compEl) == belongsWalk(s, ParentElement(s, el), compEl)

RECURSIVE closestJsfor(_, _)
\* el.closest('[jsfor]'), 0 for null.
closestJsfor(s, el) ==
  IF el = 0 THEN 0
  ELSE IF Attr(s, el).jsfor # "" THEN el
  ELSE closestJsfor(s, ParentElement(s, el))

\* The [jsdata=key] elements of compEl that hydrateBindings and
\* updateBindings do not skip.
OwnDataEls(s, compEl, key) ==
  SelectSeq(QuerySelectorAll(s, compEl, LAMBDA n : Attr(s, n).jsdata = key),
            LAMBDA el : /\ belongsToComponent(s, el, compEl)
                        /\ ~(closestJsfor(s, el) # 0 /\ closestJsfor(s, el) # compEl))

hydrateBindings(s, compEl) ==
  LET hydrateKey(acc, key) ==
        IF IsArray(StateOf(acc, compEl)[key]) THEN acc
        ELSE LET els == OwnDataEls(acc, compEl, key)
             IN IF els = <<>> THEN acc
                ELSE LET text == acc.dom.text[els[1]]
                         type == TypeOf(StateOf(acc, compEl)[key])
                     IN PutKey(acc, compEl, key,
                          IF type = "number" THEN ParseFloat(text)
                          ELSE IF type = "boolean" THEN Bool(text = <<"t", "r", "u", "e">>)
                          ELSE Str(text))
  IN FoldSeq(hydrateKey, s, Keys(StateOf(s, compEl)))

\* changedKeys is a list of keys; all stands for changedKeys = null.
updateBindings(s, compEl, changedKeys, all) ==
  LET keys == IF all THEN Keys(StateOf(s, compEl)) ELSE changedKeys
      updateKey(acc, key) ==
        LET updateEl(a, el) ==
              Logged([a EXCEPT !.dom.text[el] = ToText(StateOf(a, compEl)[key])],
                     Effect("text", compEl, key, el, "", "", FALSE))
        IN FoldSeq(updateEl, acc, OwnDataEls(acc, compEl, key))
  IN FoldSeq(updateKey, s, keys)

\* The [jsfor] containers of compEl that belong to it.
OwnContainers(s, compEl, Matches(_)) ==
  SelectSeq(QuerySelectorAll(s, compEl, LAMBDA n : Attr(s, n).jsfor # "" /\ Matches(n)),
            LAMBDA c : belongsToComponent(s, c, compEl))

initForBindings(s, compEl) ==
  LET snapshot(acc, container) ==
        IF acc.dom.kids[container] # <<>> THEN
          [acc EXCEPT !.forTemplates = MapSet(@, container, acc.dom.kids[container][1])]
        ELSE acc
  IN FoldSeq(snapshot, s, OwnContainers(s, compEl, LAMBDA n : TRUE))

\* child.textContent
ItemText(child) ==
  FoldSeq(LAMBDA acc, part : acc \o part.text, child.text, child.parts)
\* The object hydrateForBindings reads from a child in object mode.
ItemObject(child, ref) ==
  LET root == IF child.jsdata # "" THEN Put(EmptyMap, child.jsdata, Str(ItemText(child)))
              ELSE EmptyMap
  IN Obj(ref, FoldSeq(LAMBDA acc, part : Put(acc, part.jsdata, Str(part.text)),
                      root, child.parts))

hydrateForBindings(s, compEl) ==
  LET hydrate(acc, container) ==
        IF ~MapHas(acc.forTemplates, container) THEN acc
        ELSE IF acc.dom.kids[container] = <<>> THEN acc
        ELSE
          LET key == Attr(acc, container).jsfor
              template == MapGet(acc.forTemplates, container)
              children == acc.dom.kids[container]
              isObjectMode == template.jsdata # "" \/ template.parts # <<>>
              \* the new array, then one new object per child in object mode
              refs == FreshRefs(LiveRefs(acc), Len(children) + 1)
              items == [j \in 1..Len(children) |->
                          IF isObjectMode THEN ItemObject(children[j], refs[j + 1])
                          ELSE Str(ItemText(children[j]))]
          IN PutKey(acc, compEl, key, Arr(refs[1], items))
  IN FoldSeq(hydrate, s, OwnContainers(s, compEl, LAMBDA n : TRUE))

\* One child of a re-rendered container: the template cloned and filled.
RenderItem(template, item) ==
  IF item.t \in {"array", "object"} THEN
    LET parts == [l \in 1..Len(template.parts) |->
                    IF template.parts[l].jsdata \in DOMAIN item.fields
                    THEN [template.parts[l] EXCEPT
                            !.text = ToText(item.fields[template.parts[l].jsdata])]
                    ELSE template.parts[l]]
    IN IF template.jsdata # "" /\ template.jsdata \in DOMAIN item.fields
       THEN Item(template.jsdata, ToText(item.fields[template.jsdata]), <<>>)
       ELSE Item(template.jsdata, template.text, parts)
  ELSE Item(template.jsdata, ToText(item), <<>>)

updateForBindings(s, compEl, changedKeys, all) ==
  LET keys == IF all THEN Keys(StateOf(s, compEl)) ELSE changedKeys
      updateKey(acc, key) ==
        LET render(a, container) ==
              IF ~MapHas(a.forTemplates, container) THEN a
              ELSE LET template == MapGet(a.forTemplates, container)
                       items == StateOf(a, compEl)[key].items
                   IN Logged([a EXCEPT !.dom.kids[container] =
                                [k \in 1..Len(items) |-> RenderItem(template, items[k])]],
                             Effect("for", compEl, key, container, "", "", FALSE))
        IN IF ~IsArray(StateOf(acc, compEl)[key]) THEN acc
           ELSE FoldSeq(render, acc,
                        OwnContainers(acc, compEl, LAMBDA n : Attr(acc, n).jsfor = key))
  IN FoldSeq(updateKey, s, keys)

\* A node put right after the reference node.
InsertAfter(nodes, new, ref) ==
  LET i == CHOOSE i \in 1..Len(nodes) : nodes[i] = ref
  IN SubSeq(nodes, 1, i) \o <<new>> \o SubSeq(nodes, i + 1, Len(nodes))
\* parentNode.insertBefore(new, ref) on the child nodes of the parent.
InsertBefore(nodes, new, ref) ==
  LET i == CHOOSE i \in 1..Len(nodes) : nodes[i] = ref
  IN SubSeq(nodes, 1, i - 1) \o <<new>> \o SubSeq(nodes, i, Len(nodes))
\* parentNode.removeChild(old)
RemoveChild(nodes, old) == SelectSeq(nodes, LAMBDA t : t # old)
\* The node a binding keeps as its marker: the comment, or the <template>.
MarkerOf(b) == IF b.marker = 0 THEN TemplateToken ELSE CommentToken(b.marker)

\* marker = document.createComment('jsif'); el.parentNode.insertBefore(marker, el)
InsertMarker(s, el, created) ==
  [s EXCEPT !.dom.markers[el] = created,
            !.dom.slot[el] = InsertBefore(@, CommentToken(created), ElementToken)]

Binding(el, marker, key, negated, inDom) ==
  [el |-> el, marker |-> marker, key |-> key, negated |-> negated, inDom |-> inDom]

initIfBindings(s, compEl) ==
  LET els == QuerySelectorAll(s, compEl, LAMBDA n : Attr(s, n).jsif # "")
      \* acc is the runtime state and the bindings pushed so far
      bind(acc, el) ==
        IF ~belongsToComponent(acc.s, el, compEl) THEN acc
        ELSE
          LET negated == Attr(acc.s, el).negated
              key == Attr(acc.s, el).jsif
          IN IF Attr(acc.s, el).tag = "TEMPLATE" THEN
               IF acc.s.dom.where[el] # "content" THEN acc  \* empty template
               ELSE [s |-> PutKey(acc.s, compEl, key, Bool(negated)),
                     bindings |-> Append(acc.bindings,
                                         Binding(el, 0, key, negated, FALSE))]
             ELSE
               [s |-> PutKey(InsertMarker(acc.s, el, acc.s.dom.markers[el] + 1),
                             compEl, key, Bool(~negated)),
                bindings |-> Append(acc.bindings,
                                    Binding(el, acc.s.dom.markers[el] + 1, key,
                                            negated, TRUE))]
      done == FoldSeq(bind, [s |-> s, bindings |-> <<>>], els)
  IN [done.s EXCEPT !.ifBindingsStore = MapSet(@, compEl, done.bindings)]

updateIfBindings(s, compEl, changedKeys, all) ==
  IF ~MapHas(s.ifBindingsStore, compEl) THEN s
  ELSE
    LET n == Len(MapGet(s.ifBindingsStore, compEl))
        setInDom(acc, i, inDom) ==
          [acc EXCEPT !.ifBindingsStore =
             MapSet(@, compEl, [MapGet(acc.ifBindingsStore, compEl)
                                  EXCEPT ![i].inDom = inDom])]
        update(acc, i) ==
          LET b == MapGet(acc.ifBindingsStore, compEl)[i]
              has == b.key \in DOMAIN StateOf(acc, compEl)
              truthy == has /\ Truthy(StateOf(acc, compEl)[b.key])
              visible == IF b.negated THEN ~truthy ELSE truthy
          IN IF ~all /\ ~(\E j \in 1..Len(changedKeys) : changedKeys[j] = b.key) THEN acc
             ELSE IF visible /\ ~b.inDom THEN
               Logged(setInDom([acc EXCEPT !.dom.where[b.el] = "tree",
                                           !.dom.slot[b.el] =
                                              InsertBefore(@, ElementToken, MarkerOf(b))],
                               i, TRUE),
                      Effect("insert", compEl, b.key, b.el, "", "", FALSE))
             ELSE IF ~visible /\ b.inDom THEN
               Logged(setInDom([acc EXCEPT !.dom.where[b.el] = "detached",
                                           !.dom.slot[b.el] = RemoveChild(@, ElementToken)],
                               i, FALSE),
                      Effect("remove", compEl, b.key, b.el, "", "", FALSE))
             ELSE acc
    IN FoldSeq(update, s, [i \in 1..n |-> i])

\* An activation that never finds an instance.
NeverInitialized(s, compEl) == FALSE
\* instanceStore.has(compEl)
AlreadyInitialized(s, compEl) == MapHas(s.instanceStore, compEl)

\* instanceStore.set(compEl, { state: deepClone(def.state), prev: null })
StoreInstance(s, compEl, def) ==
  [s EXCEPT !.instanceStore =
     MapSet(@, compEl, Instance(deepClone(s, def.state), EmptyMap, FALSE))]
\* if (typeof def.init === 'function') def.init(compEl, state)
CallInit(s, compEl, def) ==
  IF def.init THEN Logged(s, Effect("init", compEl, def.id, 0, "", "", FALSE)) ELSE s

initInstance(s, compEl, def) ==
  IF ~def.hasState THEN s
  ELSE IF AlreadyInitialized(s, compEl) THEN s
  ELSE
    CallInit(
      updateBindings(
        initIfBindings(
          hydrateBindings(
            hydrateForBindings(
              initForBindings(StoreInstance(s, compEl, def), compEl),
              compEl),
            compEl),
          compEl),
        compEl, <<>>, TRUE),
      compEl, def)

\* The closure makeSetState(compEl, def) returns, applied to patch.
\* A comparison that takes every key of the patch for changed.
EveryKey(current, patch, k) == TRUE
\* current[k] !== patch[k]
Differs(current, patch, k) == ~StrictEq(Get(current, k), patch[k])

\* A patch that makes an instance of the patch for an element.
Revive(s, compEl, def, patch) ==
  [s EXCEPT !.instanceStore = MapSet(@, compEl, Instance(patch, EmptyMap, TRUE))]
\* prev[keys[i]] = current[keys[i]] for every key of the current state
Snapshot(current) == [k \in DOMAIN current |-> current[k]]
\* The keys of the patch whose value differs, in the order of the patch.
ChangedKeys(current, patch) == SelectSeq(Keys(patch), LAMBDA k : Differs(current, patch, k))
\* current[k] = patch[k] for every key of the patch
Merge(current, patch) == FoldSeq(LAMBDA acc, k : Put(acc, k, patch[k]), current, Keys(patch))
\* The instance after the merge: the merged state, and instance.prev = prev.
StorePatched(s, compEl, patch) ==
  [s EXCEPT !.instanceStore =
     MapSet(@, compEl, Instance(Merge(StateOf(s, compEl), patch),
                                Snapshot(StateOf(s, compEl)), TRUE))]
\* if (changedKeys.length > 0) the three render passes, for changedKeys
RenderChanged(s, compEl, changedKeys) ==
  IF Len(changedKeys) > 0
  THEN updateIfBindings(
         updateForBindings(
           updateBindings(s, compEl, changedKeys, FALSE),
           compEl, changedKeys, FALSE),
         compEl, changedKeys, FALSE)
  ELSE s
\* if (typeof def.update === 'function') def.update(compEl, current, prev)
CallUpdate(s, compEl, def) ==
  IF def.update THEN Logged(s, Effect("update", compEl, def.id, 0, "", "", FALSE)) ELSE s

setState(s, compEl, def, patch) ==
  IF ~MapHas(s.instanceStore, compEl) THEN s
  ELSE CallUpdate(RenderChanged(StorePatched(s, compEl, patch), compEl,
                                ChangedKeys(StateOf(s, compEl), patch)),
                  compEl, def)

\* A teardown that discards the instance and calls nothing.
Forget(s, compEl) == [s EXCEPT !.instanceStore = MapDelete(@, compEl)]
destroy(s, compEl) ==
  IF ~MapHas(s.instanceStore, compEl) THEN s
  ELSE
    LET compName == Attr(s, compEl).jscomponent
        hasDef == MapHas(s.componentRegistry, compName)
        s1 == IF hasDef /\ MapGet(s.componentRegistry, compName).destroy
              THEN Logged(s, Effect("destroy", compEl,
                                    MapGet(s.componentRegistry, compName).id,
                                    0, "", "", FALSE))
              ELSE s
    IN [s1 EXCEPT !.instanceStore = MapDelete(@, compEl)]

(***************************************************************************)
(* Listeners, the script loader and the replay (src/ziw.js 402-473).       *)
(***************************************************************************)
DEFAULT_EVENT_TYPES ==
  {"click", "keydown", "keyup", "input", "change", "focus", "blur", "submit"}
\* The event types the pages' definitions and interactions use.
EventTypes == {"click", "keydown", "mouseover"}

\* A runtime that keeps no record of the event types it subscribed to.
Unrecorded(s, eventType) == FALSE
\* activeEventTypes.has(eventType)
Installed(s, eventType) == eventType \in s.activeEventTypes
ensureEventListener(s, eventType) ==
  IF Installed(s, eventType) THEN s
  ELSE [s EXCEPT !.activeEventTypes = @ \cup {eventType},
                 !.listeners[eventType] = @ + 1]

Script(src, name, status) == [src |-> src, name |-> name, status |-> status]

\* Whether loadComponent returns the promise it already holds for src.
\* A loader that forgets the loads it started.
Forgotten(s, src) == FALSE
\* pendingLoads.has(src)
Deduplicated(s, src) == MapHas(s.pendingLoads, src)

loadComponent(s, name, src) ==
  IF Deduplicated(s, src) THEN s
  ELSE
    LET promise == Len(s.scripts) + 1
        s1 == [s EXCEPT !.scripts = Append(@, Script(src, name, "loading"))]
        s2 == Logged(s1, Effect("inject", promise, name, 0, src, "", FALSE))
    IN [s2 EXCEPT !.pendingLoads = MapSet(@, src, promise)]

\* A handler of the definition runs: handler(event, actionEl, compEl[, ctx]);
\* the effect keeps the target of the event it was given.
\* Its body is the page's code; the bodies modelled patch the state through
\* ctx.setState, and do nothing more when they were given no ctx.
CallHandler(s, def, body, event, actionEl, compEl, ctx) ==
  LET s1 == Logged(s, [Effect("handler", compEl, Attr(s, compEl).jscomponent, actionEl,
                              Attr(s, actionEl).jsaction, event.type, ctx)
                         EXCEPT !.event = event.target])
  IN IF ~ctx \/ body = "log" THEN s1
     ELSE setState(s1, compEl, def, PatchOf(s1, event.input, StateOf(s1, compEl)))

\* def && def.actions && def.actions[actionName] && def.actions[actionName][eventType]
HasHandler(s, compName, actionName, eventType) ==
  /\ MapHas(s.componentRegistry, compName)
  /\ MapGet(s.componentRegistry, compName).hasActions
  /\ actionName \in DOMAIN MapGet(s.componentRegistry, compName).actions
  /\ eventType \in DOMAIN MapGet(s.componentRegistry, compName).actions[actionName]

\* ctx is built when the definition has state and the element an instance.
HasCtx(s, def, compEl) == def.hasState /\ MapHas(s.instanceStore, compEl)

\* An entry that keeps the action element in the place of the component element.
EntryOfAction(event, actionEl, compEl, compName, actionName, eventType) ==
  [event |-> event, actionEl |-> actionEl, compEl |-> actionEl,
   compName |-> compName, actionName |-> actionName, eventType |-> eventType]
QueueEntry(event, actionEl, compEl, compName, actionName, eventType) ==
  [event |-> event, actionEl |-> actionEl, compEl |-> compEl,
   compName |-> compName, actionName |-> actionName, eventType |-> eventType]

\* A replay that takes every entry, whatever its component name.
TakesAll(entry, compName) == TRUE
\* Whether replayEvents(compName) takes the entry out of the queue.
ReplayTakes(entry, compName) == entry.compName = compName

\* A list of kept entries that takes a new one at its head.
KeepFirst(remaining, entry) == <<entry>> \o remaining
\* remaining.push(entry)
Keep(remaining, entry) == Append(remaining, entry)

replayEvents(s, compName) ==
  LET hasDef == MapHas(s.componentRegistry, compName)
      def == MapGet(s.componentRegistry, compName)
      \* acc is the runtime state and the entries kept so far
      step(acc, entry) ==
        IF ReplayTakes(entry, compName) THEN
          IF /\ hasDef /\ def.hasActions
             /\ entry.actionName \in DOMAIN def.actions
             /\ entry.eventType \in DOMAIN def.actions[entry.actionName]
          THEN [acc EXCEPT !.s =
                  CallHandler(acc.s, def, def.actions[entry.actionName][entry.eventType],
                              entry.event, entry.actionEl, entry.compEl,
                              HasCtx(acc.s, def, entry.compEl))]
          ELSE acc
        ELSE [acc EXCEPT !.remaining = Keep(@, entry)]
      done == FoldSeq(step, [s |-> s, remaining |-> <<>>], s.eventQueue)
  IN [done.s EXCEPT !.eventQueue = done.remaining]

(***************************************************************************)
(* The lazy-load scheduler (src/ziw.js 475-529).                           *)
(***************************************************************************)
\* getVisibilityObserver().observe(el)
observe(s, el) ==
  [s EXCEPT !.visibilityObserver =
     [created |-> TRUE, observed |-> s.visibilityObserver.observed \cup {el}]]

\* A trigger that loads whatever the registry holds.
Regardless(s, name) == TRUE
\* !componentRegistry.has(name), when a deferred trigger fires
StillUnregistered(s, name) == ~MapHas(s.componentRegistry, name)

\* visibilityObserver.unobserve(el)
unobserve(s, el) == [s EXCEPT !.visibilityObserver.observed = @ \ {el}]

\* The observer's callback for one intersecting entry.
intersecting(s, el) ==
  IF /\ Attr(s, el).jscomponent # "" /\ Attr(s, el).jssrc # ""
     /\ StillUnregistered(s, Attr(s, el).jscomponent)
  THEN loadComponent(unobserve(s, el), Attr(s, el).jscomponent, Attr(s, el).jssrc)
  ELSE unobserve(s, el)

\* The callback scan hands to requestIdleCallback, for (n, s) = (name, src).
idleCallback(s, name, src) ==
  IF StillUnregistered(s, name) THEN loadComponent(s, name, src) ELSE s

\* The jsload attribute as written, with no default.
WrittenStrategy(s, el) == Attr(s, el).jsload
\* loadStrategy = el.getAttribute('jsload') || 'eager'
LoadStrategy(s, el) == IF Attr(s, el).jsload = "" THEN "eager" ELSE Attr(s, el).jsload

\* A scan that skips no element.
NeverSkipped(s, name) == FALSE
\* Skip if already registered: componentRegistry.has(name)
Skipped(s, name) == MapHas(s.componentRegistry, name)

scan(s, root) ==
  LET elements == QuerySelectorAll(s, root, LAMBDA n : Attr(s, n).jscomponent # ""
                                                      /\ Attr(s, n).jssrc # "")
      visit(acc, el) ==
        LET name == Attr(acc, el).jscomponent
            src == Attr(acc, el).jssrc
            loadStrategy == LoadStrategy(acc, el)
        IN IF Skipped(acc, name) THEN acc
           ELSE IF loadStrategy = "eager" THEN loadComponent(acc, name, src)
           ELSE IF loadStrategy = "visible" THEN observe(acc, el)
           ELSE IF loadStrategy = "idle" THEN
             [acc EXCEPT !.idleCallbacks = Append(@, [name |-> name, src |-> src])]
           ELSE acc
  IN FoldSeq(visit, s, elements)

(***************************************************************************)
(* The dispatch (src/ziw.js 531-603).                                      *)
(***************************************************************************)
\* A walk that goes on where the runtime returns.
Continue(s) == [done |-> FALSE, s |-> s]
\* return after the handler ran: the dispatch is over.
Handled(s) == [done |-> TRUE, s |-> s]
\* return after the event was buffered: the dispatch is over.
Buffered(s) == [done |-> TRUE, s |-> s]
\* An inner walk that gives up after the first component.
NoComponent(s, compEl) == 0
\* compEl = compEl.parentElement: on to the next component outwards.
NextComponent(s, compEl) == ParentElement(s, compEl)
\* A dispatch that buffers for every unregistered component with a
\* load-source, whatever its strategy.
LoadsWhenUnregistered(s, compEl) ==
  /\ ~MapHas(s.componentRegistry, Attr(s, compEl).jscomponent)
  /\ Attr(s, compEl).jssrc # ""
\* !def && src && loadStrategy === 'interaction'
LoadsOnInteraction(s, compEl) ==
  /\ ~MapHas(s.componentRegistry, Attr(s, compEl).jscomponent)
  /\ Attr(s, compEl).jssrc # ""
  /\ Attr(s, compEl).jsload = "interaction"

RECURSIVE innerWalk(_, _, _, _)
innerWalk(s, event, el, compEl) ==
  IF compEl = 0 THEN [done |-> FALSE, s |-> s]
  ELSE
    LET compName == Attr(s, compEl).jscomponent
        actionName == Attr(s, el).jsaction
        def == MapGet(s.componentRegistry, compName)
    IN IF compName # "" /\ HasHandler(s, compName, actionName, event.type) THEN
         Handled(CallHandler(s, def, def.actions[actionName][event.type],
                             event, el, compEl, HasCtx(s, def, compEl)))
       ELSE IF compName # "" /\ LoadsOnInteraction(s, compEl) THEN
         Buffered(loadComponent(
           Logged([s EXCEPT !.eventQueue =
                     Append(@, QueueEntry(event, el, compEl, compName,
                                          actionName, event.type))],
                  Effect("buffer", compEl, compName, el, actionName, event.type, FALSE)),
           compName, Attr(s, compEl).jssrc))
       ELSE innerWalk(s, event, el, NextComponent(s, compEl))

\* An outer walk that looks at the target of the event only.
NoAction(s, el) == 0
\* el = el.parentElement: on to the next element outwards.
NextAction(s, el) == ParentElement(s, el)

RECURSIVE outerWalk(_, _, _)
outerWalk(s, event, el) ==
  IF el = 0 THEN s
  ELSE IF Attr(s, el).jsaction # "" THEN
    LET inner == innerWalk(s, event, el, el)
    IN IF inner.done THEN inner.s ELSE outerWalk(inner.s, event, NextAction(s, el))
  ELSE outerWalk(s, event, NextAction(s, el))

globalDispatch(s, event) == outerWalk(s, event, event.target)

(***************************************************************************)
(* Registration (src/ziw.js 605-633).                                      *)
(***************************************************************************)
\* Every event type of every action of the definition, in one fixed order.
DefEventTypes(def) ==
  IF ~def.hasActions THEN <<>>
  ELSE LET ts == {t \in EventTypes : \E a \in DOMAIN def.actions : t \in DOMAIN def.actions[a]}
       IN SelectSeq(<<"click", "keydown", "mouseover">>, LAMBDA t : t \in ts)

register(s, name, def) ==
  LET s1 == [s EXCEPT !.componentRegistry = MapSet(@, name, def)]
      s2 == FoldSeq(ensureEventListener, s1, DefEventTypes(def))
      elements == QuerySelectorAll(s2, 0, LAMBDA n : Attr(s2, n).jscomponent = name)
  IN IF def.hasState
     THEN FoldSeq(LAMBDA acc, el : initInstance(acc, el, def), s2, elements)
     ELSE s2

(***************************************************************************)
(* The specification: the runtime once ziw.js has run (its listeners for   *)
(* the default event types installed, the document not scanned yet), and   *)
(* one action per entry point.                                             *)
(***************************************************************************)
Loaded(p) ==
  FoldSeq(ensureEventListener,
          [page |-> p, componentRegistry |-> {}, activeEventTypes |-> {},
           listeners |-> [t \in DEFAULT_EVENT_TYPES \cup EventTypes |-> 0],
           pendingLoads |-> {}, scripts |-> <<>>, eventQueue |-> <<>>,
           visibilityObserver |-> [created |-> FALSE, observed |-> {}],
           idleCallbacks |-> <<>>, instanceStore |-> {}, forTemplates |-> {},
           ifBindingsStore |-> {}, dom |-> InitialDom(p), log |-> <<>>],
          <<"click", "keydown", "keyup", "input", "change", "focus", "blur", "submit">>)

Init ==
  \E p \in PageIds :
    /\ page = p
    /\ componentRegistry = Loaded(p).componentRegistry
    /\ activeEventTypes = Loaded(p).activeEventTypes
    /\ listeners = Loaded(p).listeners
    /\ pendingLoads = Loaded(p).pendingLoads
    /\ scripts = Loaded(p).scripts
    /\ eventQueue = Loaded(p).eventQueue
    /\ visibilityObserver = Loaded(p).visibilityObserver
    /\ idleCallbacks = Loaded(p).idleCallbacks
    /\ instanceStore = Loaded(p).instanceStore
    /\ forTemplates = Loaded(p).forTemplates
    /\ ifBindingsStore = Loaded(p).ifBindingsStore
    /\ dom = Loaded(p).dom
    /\ log = Loaded(p).log

\* The counters of the runtime that grow without limit stay within the bounds.
WithinBounds(s) ==
  /\ Len(s.eventQueue) <= MaxQueue
  /\ Len(s.scripts) <= MaxScripts
  /\ Len(s.idleCallbacks) <= MaxIdle
  /\ \A n \in Nodes(s.page) : s.dom.markers[n] <= MaxMarkers
  /\ \A t \in DOMAIN s.listeners : s.listeners[t] <= MaxListeners

Step(s) == WithinBounds(s) /\ Becomes(s)

\* The component names of the page; the definitions its scripts hold, the
\* event types its users cause and the inputs its interactions carry.
PageNames(p) == {Pages[p][n].jscomponent : n \in Nodes(p)} \ {""}
PageDefs(p) ==
  CASE p = 1 -> {OuterDef, InnerDef}
    [] p = 2 -> {OuterDef}
    [] p = 3 -> {TodoDef, CounterDef}
    [] p = 4 -> {TodoDef}
    [] p = 5 -> {CounterDef}
    [] p \in {8, 9, 10} -> {OuterDef}
    [] OTHER -> {TodoDef}
PageEventTypes(p) == IF p = 1 THEN {"click", "keydown"} ELSE {"click"}
PageInputs(p) ==
  CASE p = 3 -> {"toggle", "touch", "count", "both"}
    [] p = 4 -> {"toggle", "same", "none", "two"}
    [] p = 5 -> {"count"}
    [] p = 6 -> {"count", "two"}
    [] OTHER -> {"toggle"}

\* Page code calls Ziw.register(name, def).
RegisterCall(name, def) == Step(register(Cur, name, def))
Register == \E name \in PageNames(page), def \in PageDefs(page) : RegisterCall(name, def)

\* The automatic scan, or page code calling Ziw.scan(root).
ScanCall(root) == InDocument(Cur, root) /\ Step(scan(Cur, root))
Scan == \E root \in {0} \cup Nodes(page) : ScanCall(root)

\* A DOM event: every capture listener installed on the document for its
\* type runs globalDispatch.
\* The document delivers an event to each subscription made for its type.
Deliver(s, event) ==
  FoldSeq(LAMBDA acc, i : globalDispatch(acc, event), s,
          [i \in 1..s.listeners[event.type] |-> i])
Fire(event) ==
  /\ InDocument(Cur, event.target)
  /\ Step(Deliver(Cur, event))
Events(p) == [type : PageEventTypes(p), target : Nodes(p), input : PageInputs(p)]
Interaction == \E event \in Events(page) : Fire(event)

\* What a component script does when it runs: it registers a definition under
\* a name, or nothing.
ScriptBodies(p) ==
  {<<>>} \cup {<<[name |-> name, def |-> def]>> : name \in PageNames(p), def \in PageDefs(p)}

\* The script of a load runs: the registrations its body makes.
RunScript(s, body) == FoldSeq(LAMBDA acc, r : register(acc, r.name, r.def), s, body)
\* resolve(): the promise of the load is fulfilled.
Resolve(s, i) ==
  Logged([s EXCEPT !.scripts[i].status = "loaded"],
         Effect("resolve", i, s.scripts[i].name, 0, s.scripts[i].src, "", FALSE))
\* An onload handler that resolves the promise before it replays.
ResolvedFirst(s, i, body) ==
  replayEvents(Resolve(RunScript(s, body), i), s.scripts[i].name)
\* A script finishes loading: it runs, then its onload handler replays the
\* events buffered for the name it was loaded for and resolves the promise.
onload(s, i, body) ==
  Resolve(replayEvents(RunScript(s, body), s.scripts[i].name), i)
Onload(i, body) == scripts[i].status = "loading" /\ Step(onload(Cur, i, body))
ScriptLoad == \E i \in 1..Len(scripts), body \in ScriptBodies(page) : Onload(i, body)

\* reject(new Error(...)): the promise of the load is rejected.
Reject(s, i) ==
  Logged([s EXCEPT !.scripts[i].status = "failed"],
         Effect("reject", i, s.scripts[i].name, 0, s.scripts[i].src, "", FALSE))
\* An onerror handler that also gives up the buffered events.
Abandoned(s, i) ==
  Reject([s EXCEPT !.pendingLoads = MapDelete(@, s.scripts[i].src), !.eventQueue = <<>>], i)
\* A script fails to load: its onerror handler drops the entry of its src and
\* rejects the promise.
onerror(s, i) == Reject([s EXCEPT !.pendingLoads = MapDelete(@, s.scripts[i].src)], i)
Onerror(i) == scripts[i].status = "loading" /\ Step(onerror(Cur, i))
ScriptError == \E i \in 1..Len(scripts) : Onerror(i)

\* An observed element enters the viewport.
Intersect == \E el \in visibilityObserver.observed : Step(intersecting(Cur, el))

\* An idle callback runs.
Idle ==
  \E i \in 1..Len(idleCallbacks) :
    Step(idleCallback([Cur EXCEPT !.idleCallbacks = RemoveAt(idleCallbacks, i)],
                      idleCallbacks[i].name, idleCallbacks[i].src))

\* Page code tears a component element down.
DestroyCall(compEl) ==
  /\ Attr(Cur, compEl).jscomponent # ""
  /\ Step(destroy(Cur, compEl))
Destroy == \E compEl \in Nodes(page) : DestroyCall(compEl)

Next ==
  \/ Register
  \/ Scan
  \/ Interaction
  \/ ScriptLoad
  \/ ScriptError
  \/ Intersect
  \/ Idle
  \/ Destroy

Spec == Init /\ [][Next]_vars

(***************************************************************************)
(* Properties.  The tree is read here from the page alone, the registry    *)
(* from the variable, so that the properties do not lean on the operators  *)
(* of the dispatch they are about.                                         *)
(***************************************************************************)
\* n and its ancestors, from n outwards.
RECURSIVE Chain(_)
Chain(n) == IF n = 0 THEN <<>> ELSE <<n>> \o Chain(Pages[page][n].parent)
First(seq) == IF seq = <<>> THEN 0 ELSE Head(seq)
\* The action-marked elements from n outwards; the component elements.
ActionEls(n) == SelectSeq(Chain(n), LAMBDA m : Pages[page][m].jsaction # "")
CompEls(n) == SelectSeq(Chain(n), LAMBDA m : Pages[page][m].jscomponent # "")
NameOf(n) == Pages[page][n].jscomponent
\* The action element of an interaction: the first action-marked element from
\* the target outwards (0 when there is none).
ActionEl(event) == First(ActionEls(event.target))
Registered(name) == \E e \in componentRegistry : e.k = name
DefOf(name) == (CHOOSE e \in componentRegistry : e.k = name).v
Handles(name, action, type) ==
  /\ Registered(name)
  /\ DefOf(name).hasActions
  /\ action \in DOMAIN DefOf(name).actions
  /\ type \in DOMAIN DefOf(name).actions[action]
\* An unregistered component element with a load-source and strategy interaction.
Lazy(n) ==
  /\ ~Registered(NameOf(n))
  /\ Pages[page][n].jssrc # ""
  /\ Pages[page][n].jsload = "interaction"
\* The interactions that can happen now, and one run of the dispatch for each.
Possible == {event \in Events(page) : InDocument(Cur, event.target)}
Run(event) == globalDispatch(Cur, event)
Of(l, kinds) == SelectSeq(l, LAMBDA e : e.k \in kinds)
HandlerCall(compEl, actionEl, type, ctx, target) ==
  [Effect("handler", compEl, NameOf(compEl), actionEl, Pages[page][actionEl].jsaction,
          type, ctx) EXCEPT !.event = target]

\* C1: one run of the dispatch invokes one handler, or enqueues one buffered
\* event, or does nothing at all; never two handlers, never a handler and a
\* buffered event.
C1_OneOutcome ==
  \A event \in Possible :
    LET outcomes == Of(Run(event).log, {"handler", "buffer"})
    IN /\ Len(outcomes) <= 1
       /\ Len(outcomes) = 0 => Run(event) = Cur
       /\ Len(Run(event).eventQueue) - Len(eventQueue) = Len(Of(outcomes, {"buffer"}))
\* An interaction was handled by the inner of two components that both have a
\* handler for it.
C1_Witness ==
  /\ page = 1
  /\ Handles("Outer", "x", "click") /\ Handles("Inner", "x", "click")
  /\ Of(log, {"handler", "buffer"}) = <<HandlerCall(3, 4, "click", FALSE, 5)>>

\* C2: action bubbling.  B is the component element nearest to the action
\* element of the interaction, A the next one outwards; both are registered, A's definition has
\* a handler for the action and the event type, B's has none: the dispatch
\* invokes A's handler once, with A's element, and no handler of B.
C2_Bubbling ==
  \A event \in Possible :
    LET el == ActionEl(event)
        action == Pages[page][el].jsaction
        comps == CompEls(el)
    IN (/\ el # 0
        /\ Len(comps) >= 2
        /\ Registered(NameOf(comps[1])) /\ Registered(NameOf(comps[2]))
        /\ ~Handles(NameOf(comps[1]), action, event.type)
        /\ Handles(NameOf(comps[2]), action, event.type))
       => Of(Run(event).log, {"handler"})
            = <<HandlerCall(comps[2], el, event.type, FALSE, event.target)>>
C2_Witness ==
  /\ page = 1
  /\ Handles("Outer", "x", "click")
  /\ Registered("Inner") /\ ~Handles("Inner", "x", "click")
  /\ log = <<HandlerCall(1, 4, "click", FALSE, 5)>>

\* The dispatch invoked one handler: that of compEl, for actionEl.
Invoked(l, compEl, actionEl, type) ==
  /\ Len(Of(l, {"handler"})) = 1
  /\ Of(l, {"handler"})[1].el = compEl
  /\ Of(l, {"handler"})[1].name = NameOf(compEl)
  /\ Of(l, {"handler"})[1].actionEl = actionEl
  /\ Of(l, {"handler"})[1].action = Pages[page][actionEl].jsaction
  /\ Of(l, {"handler"})[1].type = type
\* The component elements from el outwards that come before compEl.
Nearer(el, compEl) == {c \in Nodes(page) : /\ \E i \in 1..Len(CompEls(el)) : CompEls(el)[i] = c
                                           /\ c # compEl
                                           /\ \E j \in 1..Len(Chain(c)) : Chain(c)[j] = compEl}
NearestRegistered(el) ==
  First(SelectSeq(CompEls(el), LAMBDA c : Registered(NameOf(c))))

\* C3 as stated: when the nearest enclosing registered component of the action
\* element has a handler for the action and the event type, the dispatch
\* invokes that handler and no other.
C3_AsStated ==
  \A event \in Possible :
    LET el == ActionEl(event)
        A == NearestRegistered(el)
    IN (el # 0 /\ A # 0 /\ Handles(NameOf(A), Pages[page][el].jsaction, event.type))
       => Invoked(Run(event).log, A, el, event.type)
\* C3: dispatch short-circuits.  When the nearest enclosing registered
\* component of the action element has a handler for the action and the event
\* type, and no unregistered component element with a load-source and strategy
\* interaction lies between the action element and it, the dispatch invokes
\* that handler and no other, and buffers nothing.
C3_ShortCircuit ==
  \A event \in Possible :
    LET el == ActionEl(event)
        A == NearestRegistered(el)
    IN (/\ el # 0 /\ A # 0
        /\ Handles(NameOf(A), Pages[page][el].jsaction, event.type)
        /\ \A c \in Nearer(el, A) : ~Lazy(c))
       => /\ Invoked(Run(event).log, A, el, event.type)
          /\ Run(event).eventQueue = eventQueue
\* The inner of two registered components that both have a handler handled
\* the interaction.
C3_Witness ==
  /\ page = 2
  /\ Handles("Outer", "x", "click") /\ Handles("Inner", "x", "click")
  /\ Invoked(log, 2, 3, "click")

\* C4: an interaction whose walk reaches an unregistered component element
\* with a load-source and strategy interaction (no component element nearer to
\* the action element has a handler or is such an element) appends one entry
\* (event, action element, component element, component name, action name,
\* event type) to the tail of the queue, has the load of the component's
\* source requested, and invokes no handler.
C4_Buffering ==
  \A event \in Possible :
    \A C \in Nodes(page) :
      LET el == ActionEl(event)
          action == Pages[page][el].jsaction
          src == Pages[page][C].jssrc
          loading == {i \in 1..Len(scripts) : scripts[i].src = src /\ scripts[i].status # "failed"}
          after == Run(event)
      IN (/\ el # 0 /\ NameOf(C) # "" /\ Lazy(C)
          /\ \E i \in 1..Len(CompEls(el)) : CompEls(el)[i] = C
          /\ \A c \in Nearer(el, C) : ~Lazy(c) /\ ~Handles(NameOf(c), action, event.type))
         => /\ after.eventQueue =
                 Append(eventQueue, [event |-> event, actionEl |-> el, compEl |-> C,
                                     compName |-> NameOf(C), actionName |-> action,
                                     eventType |-> event.type])
            /\ Of(after.log, {"handler"}) = <<>>
            /\ Len(Of(after.log, {"buffer"})) = 1
            /\ \E i \in 1..Len(after.scripts) :
                 /\ after.scripts[i].src = src
                 /\ after.scripts[i].status # "failed"
                 /\ \E e \in after.pendingLoads : e.k = src /\ e.v = i
            /\ loading # {} => after.scripts = scripts
\* The interaction recurred on an unregistered interaction component below a
\* component with a handler: the second entry went to the tail of the queue
\* and no further script was injected.
C4_Witness ==
  /\ page = 1
  /\ Handles("Outer", "x", "click") /\ ~Registered("Inner")
  /\ Len(eventQueue) = 2 /\ eventQueue[1] # eventQueue[2]
  /\ Len(log) = 1 /\ log[1].k = "buffer" /\ log[1].el = 3

\* The load-sources of the page, and the scripts injected for one of them.
Srcs == {Pages[page][n].jssrc : n \in Nodes(page)} \ {""}
Injected(ss, src) == {i \in 1..Len(ss) : ss[i].src = src}
Failed(ss, src) == {i \in Injected(ss, src) : ss[i].status = "failed"}

\* C5: load deduplication.  The scripts injected for a source URL are at most
\* one more than the failed loads of that URL; while a load of the URL is
\* outstanding or has succeeded, a load request for it, under any name,
\* changes nothing and injects nothing.
C5_Dedup ==
  \A src \in Srcs :
    /\ Cardinality(Injected(scripts, src)) <= 1 + Cardinality(Failed(scripts, src))
    /\ Injected(scripts, src) # Failed(scripts, src)
         => \A name \in PageNames(page) : loadComponent(Cur, name, src) = Cur
\* A load failed, the source was injected once more, and a second name asked
\* for the same source while that load was outstanding or done.
C5_Witness ==
  /\ page = 2
  /\ Len(scripts) = 2
  /\ scripts[1].src = "u1" /\ scripts[1].status = "failed"
  /\ scripts[2].src = "u1" /\ scripts[2].status # "failed"
  /\ Len(eventQueue) = 2

\* What a handler call of the replay of an entry looks like.
Replayed(effect, entry) ==
  /\ effect.k = "handler"
  /\ effect.el = entry.compEl
  /\ effect.name = entry.compName
  /\ effect.actionEl = entry.actionEl
  /\ effect.action = entry.actionName
  /\ effect.type = entry.eventType
  /\ effect.event = entry.event.target
\* The scripts still loading, and the bodies that register the name the load
\* was started for.
Loading == {i \in 1..Len(scripts) : scripts[i].status = "loading"}
Registering(name) == {body \in ScriptBodies(page) : body # <<>> /\ body[1].name = name}
HandlesIn(registry, name, action, type) ==
  \E e \in registry : /\ e.k = name
                      /\ e.v.hasActions
                      /\ action \in DOMAIN e.v.actions
                      /\ type \in DOMAIN e.v.actions[action]

\* C6 as stated: when the load of a component succeeds, every entry buffered
\* for its name is replayed to a handler once, in queue order, and the queue
\* has no entry for the name afterwards.
C6_AsStated ==
  \A i \in Loading :
    \A body \in Registering(scripts[i].name) :
      LET after == onload(Cur, i, body)
          entries == SelectSeq(eventQueue, LAMBDA e : e.compName = scripts[i].name)
          calls == Of(after.log, {"handler"})
      IN /\ Len(calls) = Len(entries)
         /\ \A j \in 1..Len(entries) : Replayed(calls[j], entries[j])
         /\ \A j \in 1..Len(after.eventQueue) : after.eventQueue[j].compName # scripts[i].name
\* C6: replay.  When a script loads that was requested for a component name,
\* whatever it registers, the queue entries of that name whose action and
\* event type have a handler in the definition then registered under the name
\* are passed to that handler once each, in queue order; the other entries of
\* the name are removed without a call; the entries of other names stay
\* queued, in order.
C6_Replay ==
  \A i \in Loading :
    \A body \in ScriptBodies(page) :
      LET after == onload(Cur, i, body)
          name == scripts[i].name
          entries == SelectSeq(eventQueue, LAMBDA e :
                       /\ e.compName = name
                       /\ HandlesIn(after.componentRegistry, name, e.actionName, e.eventType))
          calls == Of(after.log, {"handler"})
      IN /\ Len(calls) = Len(entries)
         /\ \A j \in 1..Len(entries) : Replayed(calls[j], entries[j])
         /\ after.eventQueue = SelectSeq(eventQueue, LAMBDA e : e.compName # name)
\* Two interactions with different targets were replayed in the order in which
\* they were buffered.
C6_Witness ==
  /\ page = 1
  /\ eventQueue = <<>>
  /\ \E i \in 1..Len(scripts) : scripts[i].status = "loaded"
  /\ Len(Of(log, {"handler"})) = 2
  /\ Of(log, {"handler"})[1].event = 5 /\ Of(log, {"handler"})[2].event = 4

\* The component elements of the page, those with an instance, and the
\* instance entries of one element.
Components == {n \in Nodes(page) : NameOf(n) # ""}
InstancesOf(store, el) == {e \in store : e.k = el}
Active == {el \in Components : InstancesOf(instanceStore, el) # {}}
Stateful == {def \in PageDefs(page) : def.hasState}
Inits(l, el) == Len(SelectSeq(l, LAMBDA e : e.k = "init" /\ e.el = el))

\* C7: activation is idempotent.  No element has two instances.  Activating an
\* element that has none makes one instance and calls init once (when the
\* definition has one); activating it again, or registering its name again
\* under any definition, leaves that instance and its state as they are and
\* calls init no more.
C7_Idempotent ==
  /\ \A el \in Components : Cardinality(InstancesOf(instanceStore, el)) <= 1
  /\ \A el \in Components : \A def \in Stateful :
       LET once == initInstance(Cur, el, def)
           twice == initInstance(once, el, def)
       IN /\ Cardinality(InstancesOf(once.instanceStore, el)) = 1
          /\ Inits(once.log, el) = IF el \in Active \/ ~def.init THEN 0 ELSE 1
          /\ el \in Active => once = Cur
          /\ twice = once
  /\ \A name \in PageNames(page) : \A def \in PageDefs(page) : \A again \in PageDefs(page) :
       LET once == register(Cur, name, def)
           twice == register(once, name, again)
       IN \A el \in Components :
            /\ Cardinality(InstancesOf(twice.instanceStore, el)) <= 1
            /\ Inits(twice.log, el) <= 1
            /\ el \in Active => Inits(twice.log, el) = 0
            /\ InstancesOf(once.instanceStore, el) # {}
                 => InstancesOf(twice.instanceStore, el) = InstancesOf(once.instanceStore, el)
\* The name of an active element was registered again under another
\* definition: the instance is the one counter.js made (it has no items key),
\* and nothing was initialised in that step.
C7_Witness ==
  /\ page = 3
  /\ Registered("Todo") /\ DefOf("Todo") = TodoDef
  /\ \E e \in instanceStore : e.k = 1 /\ "items" \notin DOMAIN e.v.state
  /\ log = <<>>

\* C9: the registry has at most one definition per name; registering a name
\* gives it the definition registered, and leaves the other names alone; no
\* step removes a name from the registry.
C9_OneDefinition ==
  /\ \A name \in PageNames(page) :
       Cardinality({e \in componentRegistry : e.k = name}) <= 1
  /\ \A name \in PageNames(page) : \A def \in PageDefs(page) :
       LET after == register(Cur, name, def).componentRegistry
       IN /\ {e \in after : e.k = name} = {[k |-> name, v |-> def]}
          /\ {e \in after : e.k # name} = {e \in componentRegistry : e.k # name}
C9_NeverRemoved ==
  [][\A name \in PageNames(page) :
       (\E e \in componentRegistry : e.k = name) => (\E e \in componentRegistry' : e.k = name)]_vars
C9_Registry == []C9_OneDefinition /\ C9_NeverRemoved
\* A name was registered a second time, under another definition.
\* (Only InnerDef has a mouseover handler, and a listener once installed stays.)
C9_Witness ==
  /\ page = 1
  /\ componentRegistry = {[k |-> "Inner", v |-> OuterDef]}
  /\ "mouseover" \in activeEventTypes

\* Reference/value equality of two values, and the value a state has for a
\* key (undefined when it has none).
Same(a, b) ==
  CASE a.t # b.t -> FALSE
    [] a.t = "NaN" -> FALSE
    [] a.t \in {"array", "object"} -> a.ref = b.ref
    [] a.t = "string" -> a.s = b.s
    [] a.t \in {"number", "boolean"} -> a.n = b.n
    [] OTHER -> TRUE
Prior(state, k) == IF k \in DOMAIN state THEN state[k] ELSE Undefined
Changed(state, patch) == {k \in DOMAIN patch : ~Same(Prior(state, k), patch[k])}
\* The binding elements of a component element: those whose nearest component
\* element it is.
Owns(el, n) == CompEls(n) # <<>> /\ CompEls(n)[1] = el /\ n # el
Renders(l) == Of(l, {"text", "for", "insert", "remove"})
InstanceOf(el) == (CHOOSE e \in instanceStore : e.k = el).v
\* Every patch the handlers of the page make, tried on every active element.
Patches(el) == {PatchOf(Cur, input, InstanceOf(el).state) : input \in PageInputs(page)}

\* C8: the changed keys of a patch are the keys of the patch whose value is
\* not reference/value-equal to the state's prior value.  The render passes
\* run for those keys only: every rendering made is of a changed key, every
\* text binding of a changed key in the component's tree, outside every list, is rendered, and the
\* text, the children and the presence of the bindings of the other keys stay
\* as they were; with no changed key nothing is rendered.
C8_ChangedKeys ==
  \A el \in Active : \A def \in Stateful : \A patch \in Patches(el) :
    LET after == setState(Cur, el, def, patch)
        changed == Changed(InstanceOf(el).state, patch)
        rendered == {Renders(after.log)[i].name : i \in 1..Len(Renders(after.log))}
    IN /\ rendered \subseteq changed
       /\ \A n \in Nodes(page) :
            /\ (/\ Owns(el, n) /\ InDocument(Cur, n) /\ Pages[page][n].jsdata \in changed
                /\ \A i \in 1..Len(Chain(n)) : Pages[page][Chain(n)[i]].jsfor = "")
                 => \E i \in 1..Len(after.log) :
                      /\ after.log[i].k = "text" /\ after.log[i].actionEl = n
                      /\ after.log[i].name = Pages[page][n].jsdata
            /\ Pages[page][n].jsdata \notin changed => after.dom.text[n] = dom.text[n]
            /\ Pages[page][n].jsfor \notin changed => after.dom.kids[n] = dom.kids[n]
            /\ Pages[page][n].jsif \notin changed => after.dom.where[n] = dom.where[n]
       /\ changed = {} => Renders(after.log) = <<>> /\ after.dom = dom
\* A handler patched a key with the value it had: the state equals its
\* snapshot, and nothing was rendered.
C8_Witness ==
  /\ page = 3
  /\ \E e \in instanceStore : e.k = 1 /\ e.v.hasPrev /\ e.v.prev = e.v.state
  /\ Of(log, {"handler"}) # <<>>
  /\ Renders(log) = <<>>

\* The jsfor containers of a component element, in the tree or not, and the
\* children a container gets from a template for the items of an array.
Containers(el) == {c \in Nodes(page) : Owns(el, c) /\ Pages[page][c].jsfor # ""}
Primitive(child) == child.jsdata = "" /\ child.parts = <<>>
Clones(template, items) ==
  [j \in 1..Len(items) |-> [template EXCEPT !.text = ToText(items[j])]]

\* C10: list-repeat round trip.  Activation of a component with a container
\* of n >= 1 primitive children sets state[key] to the array of the children's
\* texts in document order; after a patch that changes the key to an array,
\* the container's children are one clone of the captured template per item,
\* in array order.
C10_RoundTrip ==
  /\ \A el \in Components \ Active : \A def \in Stateful :
       LET after == initInstance(Cur, el, def)
       IN \A c \in Containers(el) :
            (/\ InDocument(Cur, c)
             /\ dom.kids[c] # <<>>
             /\ \A j \in 1..Len(dom.kids[c]) : Primitive(dom.kids[c][j]))
            => LET value == (CHOOSE e \in after.instanceStore : e.k = el)
                              .v.state[Pages[page][c].jsfor]
               IN /\ value.t = "array"
                  /\ value.items = [j \in 1..Len(dom.kids[c]) |-> Str(dom.kids[c][j].text)]
  /\ \A el \in Active : \A def \in Stateful : \A patch \in Patches(el) :
       LET after == setState(Cur, el, def, patch)
       IN \A c \in Containers(el) :
            LET key == Pages[page][c].jsfor
            IN (/\ key \in Changed(InstanceOf(el).state, patch)
                /\ patch[key].t = "array"
                /\ \E e \in forTemplates : e.k = c)
               => after.dom.kids[c] =
                    Clones((CHOOSE e \in forTemplates : e.k = c).v, patch[key].items)
\* The section was removed, the items were patched to [1, 2], and the list
\* inside the removed section still holds the three children it had.
C10_Witness ==
  /\ page = 4
  /\ dom.where[2] = "detached"
  /\ \E e \in instanceStore : e.k = 1 /\ e.v.state["items"].items = <<Num(1), Num(2)>>
  /\ dom.kids[3] = <<Li(<<"a">>), Li(<<"b">>), Li(<<"c">>)>>
  /\ Of(log, {"handler"}) # <<>>

\* The conditional bindings kept for a component element; whether a comes
\* immediately before b in a list of nodes; a list of nodes without x.
BindingsOf(el) ==
  IF \E e \in ifBindingsStore : e.k = el
  THEN (CHOOSE e \in ifBindingsStore : e.k = el).v
  ELSE <<>>
RightBefore(nodes, a, b) == \E i \in 1..(Len(nodes) - 1) : nodes[i] = a /\ nodes[i + 1] = b
Without(nodes, x) == SelectSeq(nodes, LAMBDA t : t # x)
StateAfter(after, el) == (CHOOSE e \in after.instanceStore : e.k = el).v.state
Only(key, v) == [k \in {key} |-> v]

\* The value the markup form of a conditional element gives its key, and
\* whether the forms of the conditional elements a component element has for
\* a key agree on it.
FormValue(n) ==
  IF Pages[page][n].tag = "TEMPLATE" THEN Pages[page][n].negated ELSE ~Pages[page][n].negated
Agreed(el, key) ==
  \A n \in Nodes(page) : \A m \in Nodes(page) :
    (/\ Owns(el, n) /\ Owns(el, m)
     /\ Pages[page][n].jsif = key /\ Pages[page][m].jsif = key)
    => FormValue(n) = FormValue(m)

\* C11: conditional round trip.  At activation an element in the tree
\* hydrates its key to true (false when negated) and gets a marker right
\* before it; a <template> with content hydrates its key to false (true when
\* negated); this for the keys whose conditional elements come in forms that
\* agree.  A patch that makes a shown element invisible takes it out of
\* the tree and leaves every marker where it is; the patch back puts the same
\* element, with its content, right before its marker.  A patch that makes
\* the held content of a <template> visible puts it right before the
\* <template>, and the patch back takes it out again.
C11_ConditionalRoundTrip ==
  /\ \A el \in Components \ Active : \A def \in Stateful :
       LET after == initInstance(Cur, el, def)
       IN \A n \in Nodes(page) :
            (/\ Owns(el, n) /\ Pages[page][n].jsif # "" /\ InDocument(Cur, n)
             /\ Agreed(el, Pages[page][n].jsif))
            => IF Pages[page][n].tag = "TEMPLATE"
               THEN dom.where[n] = "content"
                      => /\ StateAfter(after, el)[Pages[page][n].jsif]
                              = Bool(Pages[page][n].negated)
                         /\ after.dom.where[n] = "content"
               ELSE /\ StateAfter(after, el)[Pages[page][n].jsif]
                         = Bool(~Pages[page][n].negated)
                    /\ after.dom.where[n] = "tree"
                    /\ RightBefore(after.dom.slot[n], CommentToken(after.dom.markers[n]),
                                   ElementToken)
  /\ \A el \in Active : \A def \in Stateful : \A i \in 1..Len(BindingsOf(el)) :
       LET b == BindingsOf(el)[i]
           hide == Only(b.key, Bool(b.negated))
           show == Only(b.key, Bool(~b.negated))
           state == InstanceOf(el).state
           marker == IF b.marker = 0 THEN TemplateToken ELSE CommentToken(b.marker)
       IN /\ (b.inDom /\ b.key \in Changed(state, hide))
               => LET after == setState(Cur, el, def, hide)
                      back == setState(after, el, def, show)
                  IN /\ after.dom.where[b.el] = "detached"
                     /\ after.dom.slot[b.el] = Without(dom.slot[b.el], ElementToken)
                     /\ back.dom.where[b.el] = "tree"
                     /\ RightBefore(back.dom.slot[b.el], ElementToken, marker)
                     /\ Without(back.dom.slot[b.el], ElementToken) = after.dom.slot[b.el]
                     /\ back.dom.text = dom.text /\ back.dom.kids = dom.kids
          /\ (~b.inDom /\ b.key \in Changed(state, show))
               => LET after == setState(Cur, el, def, show)
                      back == setState(after, el, def, hide)
                  IN /\ after.dom.where[b.el] = "tree"
                     /\ RightBefore(after.dom.slot[b.el], ElementToken, marker)
                     /\ back.dom.where[b.el] = "detached"
                     /\ back.dom.slot[b.el] = Without(after.dom.slot[b.el], ElementToken)
                     /\ back.dom.slot[b.el] = Without(dom.slot[b.el], ElementToken)
\* The element was removed and put back before its marker, and the content of
\* the <template> was inserted and removed again.
C11_Witness ==
  /\ page = 3
  /\ dom.where[3] = "tree" /\ dom.slot[3] = <<ElementToken, CommentToken(1)>>
  /\ dom.where[5] = "detached" /\ dom.slot[5] = <<TemplateToken>>
  /\ Len(BindingsOf(1)) = 2 /\ BindingsOf(1)[1].inDom /\ ~BindingsOf(1)[2].inDom

\* The elements a component element hydrates a key from: tagged with the key,
\* its own, in the document, and inside none of its list containers.
Inside(n, c) == c # n /\ \E i \in 1..Len(Chain(n)) : Chain(n)[i] = c
Sources(el, key) ==
  {n \in Nodes(page) : /\ Pages[page][n].jsdata = key
                       /\ Owns(el, n) /\ InDocument(Cur, n)
                       /\ \A c \in Containers(el) : ~Inside(n, c)}
Least(S) == CHOOSE n \in S : \A m \in S : n <= m
\* The text read for a key whose declared initial value is initial.
Coerced(initial, text) ==
  CASE initial.t \in {"number", "NaN"} -> ParseFloat(text)
    [] initial.t = "boolean" -> Bool(text = <<"t", "r", "u", "e">>)
    [] OTHER -> Str(text)
\* Definitions that declare count and text with initial values of each type.
Initials == {Num(0), Bool(FALSE), Str(<<>>)}
Typed ==
  {Def("Typed", TRUE, [k \in {"count", "text"} |-> IF k = "count" THEN c ELSE t],
       FALSE, FALSE, <<>>) : c \in Initials, t \in Initials}
Conditional(el, key) == \E n \in Nodes(page) : Owns(el, n) /\ Pages[page][n].jsif = key
Hydrates(el, def) ==
  LET after == initInstance(Cur, el, def)
  IN \A k \in DOMAIN def.state :
       (def.state[k].t # "array" /\ Sources(el, k) # {} /\ ~Conditional(el, k))
       => LET text == dom.text[Least(Sources(el, k))]
          IN /\ StateAfter(after, el)[k] = Coerced(def.state[k], text)
             /\ (def.state[k] = Num(0) /\ text = <<"5">>)
                  => StateAfter(after, el)[k] = Num(5)

\* C12: text hydration.  Activation gives each key that is not an array the
\* text of the first element in document order that is tagged with the key,
\* belongs to the component and is inside none of its list containers,
\* coerced to the type of the declared initial value: parsed as a number for a
\* number ("5" gives 5 for { count: 0 }), true exactly for the text "true" for
\* a boolean, the text itself otherwise.
C12_Hydration ==
  \A el \in Components \ Active : \A def \in Stateful \cup Typed :
    InDocument(Cur, el) => Hydrates(el, def)
\* The same for the component elements that lie inside no list container.
C12_OutsideLists ==
  \A el \in Components \ Active : \A def \in Stateful \cup Typed :
    (InDocument(Cur, el) /\ \A i \in 1..Len(Chain(el)) : Pages[page][Chain(el)[i]].jsfor = "")
    => Hydrates(el, def)
\* The row of the list was activated: its count is the declared 0, and the
\* text of its count element is still the 7 the server rendered.
C12_Witness ==
  /\ page = 3
  /\ \E e \in instanceStore : e.k = 9 /\ e.v.state["count"] = Num(0)
  /\ dom.text[10] = <<"7">>
  /\ Sources(9, "count") = {10}

\* What a handler call must have been given under a registry and an instance
\* store: a context, for an element with an instance, when the definition of
\* its component declares state; no context when it declares none.
ContextOf(h, registry, store) ==
  LET def == (CHOOSE e \in registry : e.k = h.name).v
  IN IF def.hasState THEN h.ctx /\ \E e \in store : e.k = h.el
     ELSE ~h.ctx
\* The same, where a handler of a state-declaring definition called for an
\* element without an instance is given no context.
ContextWhereInstance(h, registry, store) ==
  LET def == (CHOOSE e \in registry : e.k = h.name).v
  IN h.ctx <=> (def.hasState /\ \E e \in store : e.k = h.el)
Patching(h) == DefOf(h.name).actions[h.action][h.type] = "patch"

\* C13: a handler of a definition that declares state is only ever invoked,
\* by the dispatch or by a replay, with a context for the instance of its
\* component element (a patching handler patches that instance, whose
\* snapshot becomes the state the handler was given); a handler of a
\* definition without state is invoked without a context.  So no handler of a
\* state-declaring definition is invoked for an element without an instance.
C13_Context ==
  /\ \A event \in Possible :
       LET after == Run(event)
           calls == Of(after.log, {"handler"})
       IN \A j \in 1..Len(calls) :
            /\ ContextOf(calls[j], componentRegistry, instanceStore)
            /\ (calls[j].ctx /\ Patching(calls[j]))
                 => \E e \in after.instanceStore :
                      /\ e.k = calls[j].el /\ e.v.hasPrev
                      /\ e.v.prev = InstanceOf(calls[j].el).state
  /\ \A i \in Loading : \A body \in ScriptBodies(page) :
       LET after == onload(Cur, i, body)
           calls == Of(after.log, {"handler"})
       IN \A j \in 1..Len(calls) :
            ContextOf(calls[j], after.componentRegistry, after.instanceStore)
\* What the runtime does: the context is given exactly when the definition
\* declares state and the element has an instance.
C13_WhereInstance ==
  /\ \A event \in Possible :
       LET after == Run(event)
           calls == Of(after.log, {"handler"})
       IN \A j \in 1..Len(calls) :
            /\ ContextWhereInstance(calls[j], componentRegistry, instanceStore)
            /\ (calls[j].ctx /\ Patching(calls[j]))
                 => \E e \in after.instanceStore :
                      /\ e.k = calls[j].el /\ e.v.hasPrev
                      /\ e.v.prev = InstanceOf(calls[j].el).state
  /\ \A i \in Loading : \A body \in ScriptBodies(page) :
       LET after == onload(Cur, i, body)
           calls == Of(after.log, {"handler"})
       IN \A j \in 1..Len(calls) :
            ContextWhereInstance(calls[j], after.componentRegistry, after.instanceStore)
\* A buffered interaction was replayed to the handler of the counter, without
\* a context, after the element had been torn down.
C13_Witness ==
  /\ page = 5
  /\ \E e \in componentRegistry : e.k = "Counter" /\ e.v.hasState
  /\ instanceStore = {}
  /\ \E j \in 1..Len(log) : log[j].k = "handler" /\ log[j].el = 1 /\ ~log[j].ctx
  /\ \E i \in 1..Len(scripts) : scripts[i].status = "loaded"

\* The instance of every component element but el, and what the registered
\* definitions declare.
Others(store, el) == {e \in store : e.k # el}
Declared(registry) == {[k |-> e.k, v |-> e.v.state] : e \in registry}
ArrayKeys(state) == {k \in DOMAIN state : state[k].t = "array"}

\* C14: instances are independent.  A patch of the instance of one element,
\* a run of the dispatch that invokes a handler for it, or a handler growing
\* one of its arrays in place, changes neither the state or the snapshot of
\* the instance of any other element nor the state a registered definition
\* declares; and the registered definitions declare what the page's code
\* declared.
C14_Independent ==
  /\ \A e \in componentRegistry : e.v \in PageDefs(page)
  /\ \A el \in Active : \A def \in Stateful :
       /\ \A patch \in Patches(el) :
            LET after == setState(Cur, el, def, patch)
            IN /\ Others(after.instanceStore, el) = Others(instanceStore, el)
               /\ Declared(after.componentRegistry) = Declared(componentRegistry)
       /\ \A k \in ArrayKeys(InstanceOf(el).state) :
            LET after == Push(Cur, InstanceOf(el).state, k)
            IN /\ Others(after.instanceStore, el) = Others(instanceStore, el)
               /\ Declared(after.componentRegistry) = Declared(componentRegistry)
               /\ Len(StateAfter(after, el)[k].items) = Len(InstanceOf(el).state[k].items) + 1
  /\ \A event \in Possible :
       LET after == Run(event)
           calls == Of(after.log, {"handler"})
       IN \A j \in 1..Len(calls) :
            /\ Others(after.instanceStore, calls[j].el) = Others(instanceStore, calls[j].el)
            /\ Declared(after.componentRegistry) = Declared(componentRegistry)
\* Two elements have instances of one definition that declares an array, and
\* a handler has patched the first.
C14_Witness ==
  /\ page = 3
  /\ \E e \in componentRegistry : e.k = "Todo" /\ e.v = TodoDef
  /\ \E a \in instanceStore : \E b \in instanceStore :
       /\ a.k = 1 /\ b.k = 9 /\ a.v.hasPrev /\ ~b.v.hasPrev
       /\ a.v.state["items"].t = "array" /\ b.v.state["items"].t = "array"
       /\ a.v.state["count"] # b.v.state["count"]

\* The scans that can be made now; the state a step starts from, its effects
\* forgotten; the scripts, watches and idle callbacks a scan added.
Roots == {root \in {0} \cup Nodes(page) : InDocument(Cur, root)}
Rested(s) == [s EXCEPT !.log = <<>>]
Watched(before, after) == after.visibilityObserver.observed \ before.visibilityObserver.observed
Scheduled(before, after) ==
  SubSeq(after.idleCallbacks, Len(before.idleCallbacks) + 1, Len(after.idleCallbacks))
Pending(ss, src) == Injected(ss, src) # Failed(ss, src)

\* C15: a scan of the document or of a subtree injects no script, watches no
\* element and schedules no idle callback for a registered name, whatever the
\* strategy of the element; a scan, and a scan after it, injects no script
\* for a source whose load is outstanding or has succeeded.
C15_ScanSkips ==
  \A root \in Roots :
    LET after == scan(Cur, root)
        again == scan(Rested(after), 0)
        injects == Of(after.log, {"inject"})
        callbacks == Scheduled(Cur, after)
    IN /\ Len(after.scripts) = Len(scripts) + Len(injects)
       /\ \A j \in 1..Len(injects) : ~Registered(injects[j].name)
       /\ \A el \in Watched(Cur, after) : ~Registered(NameOf(el))
       /\ SubSeq(after.idleCallbacks, 1, Len(idleCallbacks)) = idleCallbacks
       /\ \A j \in 1..Len(callbacks) : ~Registered(callbacks[j].name)
       /\ (\A n \in Nodes(page) : NameOf(n) # "" => Registered(NameOf(n)))
            => after = Cur
       /\ \A src \in Srcs :
            /\ Pending(scripts, src) => Injected(after.scripts, src) = Injected(scripts, src)
            /\ Pending(after.scripts, src)
                 => Injected(again.scripts, src) = Injected(after.scripts, src)
\* The document was scanned while Outer, an eager element with a load-source,
\* was registered: the watch and the idle callback of the Counter elements
\* are there, and no script was ever injected.
C15_Witness ==
  /\ page = 2
  /\ Registered("Outer") /\ ~Registered("Counter")
  /\ scripts = <<>>
  /\ visibilityObserver.observed = {4}
  /\ Len(idleCallbacks) = 1

\* C16: a failed load.  When the load of a script fails, the entry of its
\* source leaves the table of loads (the next request for the source injects
\* a script) and the entries of the other sources stay; the event queue is as
\* it was, no handler is invoked and no script is injected (the rejection of
\* the promise is all the step does), and nothing else of the runtime's state
\* changes.
C16_FailedLoad ==
  \A i \in Loading :
    LET after == onerror(Cur, i)
        src == scripts[i].src
    IN /\ ~\E e \in after.pendingLoads : e.k = src
       /\ {e \in after.pendingLoads : e.k # src} = {e \in pendingLoads : e.k # src}
       /\ \E e \in pendingLoads : e.k = src /\ e.v = i
       /\ after.eventQueue = eventQueue
       /\ Of(after.log, {"reject"}) = after.log /\ Len(after.log) = 1
       /\ after.scripts = [scripts EXCEPT ![i].status = "failed"]
       /\ [after EXCEPT !.pendingLoads = pendingLoads, !.scripts = scripts,
                        !.log = <<>>] = Cur
       /\ \A name \in PageNames(page) :
            Len(loadComponent(after, name, src).scripts) = Len(scripts) + 1
\* The load an interaction started has failed; the two interactions buffered
\* for the component are still queued, and no load is outstanding.
C16_Witness ==
  /\ page = 5
  /\ Len(scripts) = 1 /\ scripts[1].status = "failed"
  /\ pendingLoads = {}
  /\ Len(eventQueue) = 2
  /\ Len(log) = 1 /\ log[1].k = "reject"

\* The last effect of a step (none: an effect of no kind).
LastOf(l) == IF l = <<>> THEN [k |-> "none", el |-> 0, name |-> ""] ELSE l[Len(l)]
Merged(state, patch) ==
  [k \in DOMAIN state \cup DOMAIN patch |-> IF k \in DOMAIN patch THEN patch[k] ELSE state[k]]

\* C17: the update callback.  An instance has no snapshot until it is
\* patched.  Every patch of an element with an instance, with or without a
\* changed key, calls the update callback of the definition once (never when
\* the definition has none), as the last effect of the patch, after the
\* renderings; the instance then holds the patch merged into its state, and
\* as its snapshot the state it had before the patch, key by key.
C17_Update ==
  /\ \A el \in Components \ Active : \A def \in Stateful :
       \A e \in initInstance(Cur, el, def).instanceStore :
         e.k = el => ~e.v.hasPrev /\ e.v.prev = EmptyMap
  /\ \A el \in Active : \A def \in PageDefs(page) : \A patch \in Patches(el) :
       LET after == setState(Cur, el, def, patch)
           updates == Of(after.log, {"update"})
           before == InstanceOf(el).state
       IN /\ Len(updates) = IF def.update THEN 1 ELSE 0
          /\ def.update => /\ LastOf(after.log).k = "update"
                           /\ LastOf(after.log).el = el
                           /\ LastOf(after.log).name = def.id
          /\ \E e \in after.instanceStore :
               /\ e.k = el /\ e.v.hasPrev
               /\ DOMAIN e.v.prev = DOMAIN before
               /\ \A k \in DOMAIN before : e.v.prev[k] = before[k]
               /\ e.v.state = Merged(before, patch)
\* A handler patched the count of the first Todo: its text was rendered, then
\* update was called, and the snapshot holds the count of before.
C17_Witness ==
  /\ page = 3
  /\ Len(Of(log, {"text"})) >= 1
  /\ LastOf(log).k = "update" /\ LastOf(log).el = 1
  /\ Len(Of(log, {"update"})) = 1
  /\ \E e \in instanceStore :
       e.k = 1 /\ e.v.hasPrev /\ e.v.prev["count"] # e.v.state["count"]

\* The patches a handler can make, whatever state it was given.
AnyPatches == {PatchOf(Cur, input, TodoState) : input \in PageInputs(page)}

\* C18: no instance, no effect.  For an element without an instance, a patch
\* under any definition and a teardown leave the whole state as it is and
\* call nothing.  After the teardown of an element, the patch function a
\* handler kept for it does nothing as long as the element has no instance.
C18_NoInstance ==
  /\ \A el \in Nodes(page) \ Active :
       /\ destroy(Cur, el) = Cur
       /\ \A def \in PageDefs(page) : \A patch \in AnyPatches :
            setState(Cur, el, def, patch) = Cur
  /\ \A el \in Active :
       LET gone == Rested(destroy(Cur, el))
       IN \A def \in PageDefs(page) : \A patch \in AnyPatches :
            setState(gone, el, def, patch) = gone
\* The first Todo was activated and torn down, the second still has its
\* instance, and a step since has changed and called nothing.
C18_Witness ==
  /\ page = 3
  /\ Registered("Todo")
  /\ dom.markers[3] >= 1
  /\ Active = {9}
  /\ log = <<>>

\* C19: teardown.  The teardown of an element with an instance calls the
\* destroy callback of the definition registered for it once (never when the
\* definition has none), discards the instance and nothing else: the document
\* and the instances of the other elements stay as they are.  A second
\* teardown of the element changes and calls nothing.
C19_Teardown ==
  \A el \in Active :
    LET after == destroy(Cur, el)
        calls == Of(after.log, {"destroy"})
        hook == Registered(NameOf(el)) /\ DefOf(NameOf(el)).destroy
    IN /\ Len(after.log) = Len(calls)
       /\ Len(calls) = IF hook THEN 1 ELSE 0
       /\ hook => calls[1].el = el /\ calls[1].name = DefOf(NameOf(el)).id
       /\ ~\E e \in after.instanceStore : e.k = el
       /\ Others(after.instanceStore, el) = Others(instanceStore, el)
       /\ after.dom = dom
       /\ [after EXCEPT !.instanceStore = instanceStore, !.log = <<>>] = Cur
       /\ destroy(Rested(after), el) = Rested(after)
\* The first Todo, whose conditional element is out of the tree, was torn
\* down: destroy was called once, and the element is where it was.
C19_Witness ==
  /\ page = 3
  /\ Len(log) = 1 /\ log[1].k = "destroy" /\ log[1].el = 1
  /\ Active = {9}
  /\ dom.where[3] = "detached"

\* The elements a scan of root visits that it does not skip: in the subtree
\* of root, with a component name and a load-source, the name unregistered.
Strategy(n) == IF Pages[page][n].jsload = "" THEN "eager" ELSE Pages[page][n].jsload
Scanned(root) ==
  {n \in Nodes(page) : /\ root = 0 \/ Inside(n, root)
                       /\ InDocument(Cur, n)
                       /\ NameOf(n) # "" /\ Pages[page][n].jssrc # ""
                       /\ ~Registered(NameOf(n))}

\* C20: the strategies of a scan.  For the unregistered elements with a
\* load-source that a scan visits: an element with strategy eager, or with
\* none, has its source loading or loaded after the scan, injected by the
\* scan itself unless a load of the source was outstanding or done; an
\* element with strategy visible is watched and one with strategy idle has an
\* idle callback scheduled; the scan injects scripts only for eager elements,
\* so none for interaction, visible and idle.
C20_Strategies ==
  \A root \in Roots :
    LET after == scan(Cur, root)
        injects == Of(after.log, {"inject"})
    IN /\ \A n \in Scanned(root) :
            LET src == Pages[page][n].jssrc
            IN CASE Strategy(n) = "eager" ->
                      /\ Pending(after.scripts, src)
                      /\ ~Pending(scripts, src)
                           => \E j \in 1..Len(injects) : injects[j].action = src
                 [] Strategy(n) = "visible" -> n \in after.visibilityObserver.observed
                 [] Strategy(n) = "idle" ->
                      \E j \in 1..Len(Scheduled(Cur, after)) :
                        Scheduled(Cur, after)[j] = [name |-> NameOf(n), src |-> src]
                 [] OTHER -> TRUE
       /\ \A j \in 1..Len(injects) :
            \E n \in Scanned(root) : /\ Strategy(n) = "eager"
                                     /\ Pages[page][n].jssrc = injects[j].action
                                     /\ NameOf(n) = injects[j].name
       /\ Len(after.scripts) = Len(scripts) + Len(injects)
       /\ (\A n \in Scanned(root) : Strategy(n) = "interaction") => after = Cur
       /\ (\A n \in Scanned(root) : Strategy(n) # "eager") => after.scripts = scripts
\* The document was scanned with nothing registered: the script of the eager
\* Outer is loading, Counter is watched and has an idle callback, and nothing
\* was done for the interaction element Inner.
C20_Witness ==
  /\ page = 2
  /\ componentRegistry = {}
  /\ Len(scripts) = 1 /\ scripts[1].src = "u1" /\ scripts[1].name = "Outer"
  /\ visibilityObserver.observed = {4}
  /\ Len(idleCallbacks) = 1 /\ idleCallbacks[1].name = "Counter"
  /\ eventQueue = <<>>
  /\ Len(Of(log, {"inject"})) = 1

\* The queue entries a replay for a name takes, and whether the handler calls
\* of a step are, in order, replays of some of the entries.
EntriesOf(queue, name) == SelectSeq(queue, LAMBDA e : e.compName = name)
RECURSIVE ReplaysOf(_, _)
ReplaysOf(calls, entries) ==
  IF calls = <<>> THEN TRUE
  ELSE IF entries = <<>> THEN FALSE
  ELSE IF Replayed(Head(calls), Head(entries)) THEN ReplaysOf(Tail(calls), Tail(entries))
  ELSE ReplaysOf(calls, Tail(entries))
Resolution(i) == Effect("resolve", i, scripts[i].name, 0, scripts[i].src, "", FALSE)

\* The load completion of every outstanding load, whatever the script does:
\* the promise is resolved once, as the last effect of the step, after every
\* handler call of the replay; every handler call of the step is the replay
\* of an entry that was queued for the name of the load, and the step buffers
\* nothing; until that step the load is outstanding.
C21_InOneStep ==
  \A i \in Loading : \A body \in ScriptBodies(page) :
    LET after == onload(Cur, i, body)
        calls == Of(after.log, {"handler"})
    IN /\ Of(after.log, {"resolve"}) = <<Resolution(i)>>
       /\ LastOf(after.log) = Resolution(i)
       /\ after.scripts = [scripts EXCEPT ![i].status = "loaded"]
       /\ ReplaysOf(calls, EntriesOf(eventQueue, scripts[i].name))
       /\ Of(after.log, {"buffer", "inject"}) = <<>>
       /\ EntriesOf(after.eventQueue, scripts[i].name) = <<>>
\* A step resolves a load exactly when it takes the load from loading to
\* loaded, and the step that does it leaves no entry of the load's name
\* queued; a step that resolves no load shortens the queue by nothing.
C21_NoStepBetween ==
  /\ \A i \in 1..Len(scripts) :
       (scripts[i].status = "loading" /\ scripts'[i].status = "loaded")
         <=> (\E j \in 1..Len(log') : log'[j].k = "resolve" /\ log'[j].el = i)
  /\ \A i \in 1..Len(scripts) :
       (scripts[i].status = "loading" /\ scripts'[i].status = "loaded")
         => \A j \in 1..Len(eventQueue') : eventQueue'[j].compName # scripts[i].name
  /\ (\A j \in 1..Len(log') : log'[j].k # "resolve")
       => SubSeq(eventQueue', 1, Len(eventQueue)) = eventQueue
\* C21: the replay of the interactions buffered for a component runs inside
\* the load-completion step, before the promise of the load is resolved: the
\* resolution is the last thing the step does, no dispatch runs in the step,
\* and no step lies between the completion of the load and the end of the
\* replay.
C21_Synchronous == []C21_InOneStep /\ [][C21_NoStepBetween]_vars
\* Two buffered interactions were replayed to their handler and the promise
\* of the load was resolved after them, in one step.
C21_Witness ==
  /\ page = 1
  /\ Len(log) = 3
  /\ log[1].k = "handler" /\ log[2].k = "handler" /\ log[3].k = "resolve"
  /\ eventQueue = <<>>
  /\ scripts[log[3].el].status = "loaded"

\* The scripts a load can bring: those of the page, and one that registers
\* every component name of the page, each under every definition.
InOrderNames == SelectSeq(<<"Outer", "Inner", "Counter", "Todo">>, LAMBDA n : n \in PageNames(page))
Bundles ==
  {[j \in 1..Len(InOrderNames) |-> [name |-> InOrderNames[j], def |-> def]] :
     def \in PageDefs(page)}
Registers(body, name) == \E j \in 1..Len(body) : body[j].name = name
\* The load an interaction buffered for a component element asked for: the
\* one of the element's load-source.
SrcOf(entry) == Pages[page][entry.compEl].jssrc

\* C22: when a load completes whose script registers the component, the
\* interactions buffered for every component name whose elements asked for
\* that load (they name its source URL) are replayed and leave the queue,
\* also when the load was started under another component name.
C22_EveryNameReplayed ==
  \A i \in Loading : \A body \in ScriptBodies(page) \cup Bundles :
    LET after == onload(Cur, i, body)
    IN \A j \in 1..Len(eventQueue) :
         (SrcOf(eventQueue[j]) = scripts[i].src /\ Registers(body, eventQueue[j].compName))
         => /\ EntriesOf(after.eventQueue, eventQueue[j].compName) = <<>>
            /\ HandlesIn(after.componentRegistry, eventQueue[j].compName,
                         eventQueue[j].actionName, eventQueue[j].eventType)
                 => \E k \in 1..Len(after.log) : Replayed(after.log[k], eventQueue[j])
\* An entry whose load has succeeded: a script of its source is loaded.
Stranded(entry) ==
  \E i \in 1..Len(scripts) : scripts[i].src = SrcOf(entry) /\ scripts[i].status = "loaded"
\* What the runtime does with such an entry: no later step takes it out of
\* the queue.
C22_StrandedForever ==
  [][\A j \in 1..Len(eventQueue) :
       Stranded(eventQueue[j]) => \E k \in 1..Len(eventQueue') : eventQueue'[k] = eventQueue[j]]_vars
\* The scan started the load of u1 for Outer, an interaction on Inner was
\* buffered and shares that load; the script has loaded and registered
\* Inner with a handler for the interaction, which is still queued.
C22_Witness ==
  /\ page = 2
  /\ Len(scripts) = 1 /\ scripts[1] = Script("u1", "Outer", "loaded")
  /\ Handles("Inner", "x", "click")
  /\ Len(eventQueue) >= 1 /\ eventQueue[1].compName = "Inner"
  /\ LastOf(log).k = "resolve"

\* Whether the inner walk for the action element of an interaction reaches the
\* component element C: no component element nearer to the action element has
\* a handler for the action or buffers it.
Reaches(event, C) ==
  LET el == ActionEl(event)
  IN /\ el # 0 /\ NameOf(C) # ""
     /\ \E j \in 1..Len(CompEls(el)) : CompEls(el)[j] = C
     /\ \A c \in Nearer(el, C) :
          ~Lazy(c) /\ ~Handles(NameOf(c), Pages[page][el].jsaction, event.type)
EntryFor(event, C) ==
  [event |-> event, actionEl |-> ActionEl(event), compEl |-> C, compName |-> NameOf(C),
   actionName |-> Pages[page][ActionEl(event)].jsaction, eventType |-> event.type]

\* C23: retry after a failure.  When the outstanding load of the source of an
\* unregistered interaction component fails, the next interaction that
\* reaches the component is buffered behind the entries already queued and
\* injects a new script for the source; when that script loads, the entries
\* of the component buffered before the failure and the one buffered after it
\* are passed to the handlers the loaded definition has for them, once each,
\* in the order of their arrival, and none is left in the queue.
C23_Retry ==
  \A i \in Loading : \A event \in Possible : \A C \in Nodes(page) :
    LET name == NameOf(C)
        src == scripts[i].src
        failed == Rested(onerror(Cur, i))
        after == globalDispatch(failed, event)
        retry == Len(scripts) + 1
    IN (Lazy(C) /\ Pages[page][C].jssrc = src /\ Reaches(event, C))
       => /\ failed.eventQueue = eventQueue
          /\ after.eventQueue = Append(eventQueue, EntryFor(event, C))
          /\ after.scripts = Append(failed.scripts, Script(src, name, "loading"))
          /\ Len(Of(after.log, {"inject"})) = 1
          /\ Of(after.log, {"handler"}) = <<>>
          /\ \A body \in ScriptBodies(page) :
               LET done == onload(Rested(after), retry, body)
                   handled == SelectSeq(EntriesOf(after.eventQueue, name), LAMBDA e :
                                HandlesIn(done.componentRegistry, name, e.actionName, e.eventType))
                   calls == Of(done.log, {"handler"})
               IN /\ Len(calls) = Len(handled)
                  /\ \A j \in 1..Len(handled) : Replayed(calls[j], handled[j])
                  /\ EntriesOf(done.eventQueue, name) = <<>>
                  /\ done.scripts[retry].status = "loaded"
\* The first load failed with one interaction buffered, a second interaction
\* was buffered and injected a second script, which loaded: both were
\* replayed, the earlier first.
C23_Witness ==
  /\ page = 1
  /\ Len(scripts) = 2 /\ scripts[1].status = "failed" /\ scripts[2].status = "loaded"
  /\ eventQueue = <<>>
  /\ Len(Of(log, {"handler"})) = 2
  /\ Of(log, {"handler"})[1].event = 5 /\ Of(log, {"handler"})[2].event = 4

\* Whether a queue is another with entries appended to it.
Extends(longer, shorter) ==
  Len(longer) >= Len(shorter) /\ SubSeq(longer, 1, Len(shorter)) = shorter
NotOf(queue, name) == SelectSeq(queue, LAMBDA e : e.compName # name)

\* What each operation of the runtime, run in the current state, does to the
\* queue: the replay for a name takes out the entries of the name and keeps
\* the others, in order; a dispatch leaves the queue or appends to it; every
\* other operation leaves it as it is.
C24_OnlyReplay ==
  /\ \A name \in PageNames(page) :
       replayEvents(Cur, name).eventQueue = NotOf(eventQueue, name)
  /\ \A event \in Possible : Extends(Run(event).eventQueue, eventQueue)
  /\ \A name \in PageNames(page) : \A def \in PageDefs(page) :
       register(Cur, name, def).eventQueue = eventQueue
  /\ \A root \in Roots : scan(Cur, root).eventQueue = eventQueue
  /\ \A i \in Loading : onerror(Cur, i).eventQueue = eventQueue
  /\ \A el \in visibilityObserver.observed : intersecting(Cur, el).eventQueue = eventQueue
  /\ \A j \in 1..Len(idleCallbacks) :
       idleCallback(Cur, idleCallbacks[j].name, idleCallbacks[j].src).eventQueue = eventQueue
  /\ \A el \in Components :
       /\ destroy(Cur, el).eventQueue = eventQueue
       /\ \A def \in PageDefs(page) : \A patch \in AnyPatches :
            setState(Cur, el, def, patch).eventQueue = eventQueue
\* Every step either keeps the entries of the queue where they are (and may
\* append to them), or is the completion of a load and takes out the entries
\* of the name of that load, keeping the others in order.
C24_Steps ==
  \/ Extends(eventQueue', eventQueue)
  \/ \E i \in 1..Len(scripts) :
       /\ scripts[i].status = "loading" /\ scripts'[i].status = "loaded"
       /\ eventQueue' = NotOf(eventQueue, scripts[i].name)
\* C24: an entry leaves the queue only in the replay for its own component
\* name, which removes the entries of that name and leaves those of every
\* other name queued in their order; no dispatch, registration, load failure,
\* scan, deferred trigger, patch or teardown removes or reorders an entry.
C24_QueueFrame == []C24_OnlyReplay /\ [][C24_Steps]_vars
\* The script of Counter has loaded while two interactions buffered for
\* Inner were queued: they still are.
C24_Witness ==
  /\ page = 2
  /\ Len(eventQueue) = 2 /\ eventQueue[1].compName = "Inner"
  /\ LastOf(log).k = "resolve" /\ LastOf(log).name = "Counter"
  /\ \E i \in 1..Len(scripts) : scripts[i].name = "Inner" /\ scripts[i].status = "loading"

\* What a request for the load of src under name makes of the scripts: a new
\* script unless a load of the source is outstanding or done.
Requested(ss, name, src) ==
  IF Pending(ss, src) THEN ss ELSE Append(ss, Script(src, name, "loading"))

\* A deferred trigger that fires now.  The first intersection of a watched
\* element takes it off the watch; the idle callback of an element is run.
\* Either requests the load of the element's source when the name of the
\* element is unregistered, and otherwise starts no load and changes nothing
\* else.
C25_Fires ==
  /\ \A el \in visibilityObserver.observed :
       LET after == intersecting(Cur, el)
       IN /\ after.visibilityObserver.observed = visibilityObserver.observed \ {el}
          /\ after.scripts = IF Registered(NameOf(el)) THEN scripts
                             ELSE Requested(scripts, NameOf(el), Pages[page][el].jssrc)
          /\ Registered(NameOf(el))
               => [after EXCEPT !.visibilityObserver = visibilityObserver] = Cur
          /\ Len(Of(after.log, {"inject"})) = Len(after.scripts) - Len(scripts)
  /\ \A j \in 1..Len(idleCallbacks) :
       LET name == idleCallbacks[j].name
           after == idleCallback(Cur, name, idleCallbacks[j].src)
       IN /\ after.scripts = IF Registered(name) THEN scripts
                             ELSE Requested(scripts, name, idleCallbacks[j].src)
          /\ Registered(name) => after = Cur
          /\ Len(Of(after.log, {"inject"})) = Len(after.scripts) - Len(scripts)
\* No step injects a script under a name that is registered when the step
\* begins; a step that takes an element off the watch does not put it back,
\* and an idle callback that has run is gone.
C25_Steps ==
  /\ \A i \in (Len(scripts) + 1)..Len(scripts') : ~Registered(scripts'[i].name)
  /\ Len(idleCallbacks') < Len(idleCallbacks) => Len(idleCallbacks') = Len(idleCallbacks) - 1
\* C25: a deferred load trigger (the first intersection of a visible
\* element, the idle callback of an idle element) invokes the loader only if
\* the component name is unregistered when it fires; when the name was
\* registered in the interim it starts no load; a visible element is taken
\* off the watch at its first intersection.
C25_Deferred == []C25_Fires /\ [][C25_Steps]_vars
\* The scan watched one Counter element and scheduled the idle callback of
\* the other; Counter was registered; both triggers have fired, and no script
\* was ever injected.
C25_Witness ==
  /\ page = 2
  /\ Registered("Counter")
  /\ visibilityObserver.created /\ visibilityObserver.observed = {}
  /\ idleCallbacks = <<>>
  /\ scripts = <<>>

\* The component element that decides the inner walk for an action element:
\* the first one outwards that has a handler for the action and the event
\* type, or is unregistered with a load-source and strategy interaction (0
\* when the walk finds none).
ActionOf(a) == Pages[page][a].jsaction
Decider(a, type) ==
  First(SelectSeq(CompEls(a), LAMBDA c : Handles(NameOf(c), ActionOf(a), type) \/ Lazy(c)))
\* The action-marked elements from the target outwards whose inner walk
\* finds a component that decides.
Resolving(event) ==
  SelectSeq(ActionEls(event.target), LAMBDA a : Decider(a, event.type) # 0)

\* C26: the outer walk goes on.  The dispatch settles on the first
\* action-marked element from the target outwards whose action some component
\* on its ancestor chain handles or buffers, passing over the nearer
\* action-marked elements that none does: the handler invoked (or the entry
\* buffered) gets that element as its action element, its action name, and
\* the component element that decided; when no action-marked ancestor
\* resolves, the dispatch invokes and enqueues nothing and changes nothing.
C26_OuterWalk ==
  \A event \in Possible :
    LET after == Run(event)
    IN IF Resolving(event) = <<>> THEN after = Cur
       ELSE LET a == Resolving(event)[1]
                c == Decider(a, event.type)
            IN IF Handles(NameOf(c), ActionOf(a), event.type)
               THEN /\ Invoked(after.log, c, a, event.type)
                    /\ Of(after.log, {"handler"})[1].event = event.target
                    /\ after.eventQueue = eventQueue
               ELSE /\ Of(after.log, {"handler"}) = <<>>
                    /\ after.eventQueue = Append(eventQueue, EntryFor(event, c))
\* A click on the span in the x button: no component handles x, the walk
\* went on to the y element outside Inner, and Outer's handler for y was
\* invoked with that element.
C26_Witness ==
  /\ page = 1
  /\ Registered("Inner") /\ ~Handles("Inner", "x", "click")
  /\ ~Handles("Outer", "x", "click") /\ Handles("Outer", "y", "click")
  /\ Of(log, {"handler"}) = <<HandlerCall(1, 2, "click", FALSE, 5)>>

\* The template retained for a list container (none: an item of no text).
TemplateOf(templates, c) ==
  IF \E e \in templates : e.k = c THEN (CHOOSE e \in templates : e.k = c).v
  ELSE Item("", <<>>, <<>>)
Captured(templates) == {e.k : e \in templates}

\* C27: the template of a list container is captured once.  The template
\* retained for a container is the clone of the first child it had when the
\* server rendered it, taken at the first activation; no activation of an
\* element, after a teardown or not, replaces a template that is retained.
C27_CapturedOnce ==
  /\ \A c \in Captured(forTemplates) :
       TemplateOf(forTemplates, c) = InitialKids(page, c)[1]
  /\ \A el \in Components : \A def \in Stateful :
       \A c \in Captured(forTemplates) :
         TemplateOf(initInstance(Cur, el, def).forTemplates, c) = TemplateOf(forTemplates, c)
\* What the runtime keeps to: a patch and a teardown leave every template as
\* it is, and a template changes only in the activation of the element that
\* owns its container, to the first child the container then has.
C27_OnlyActivation ==
  /\ \A el \in Components :
       /\ destroy(Cur, el).forTemplates = forTemplates
       /\ \A def \in Stateful : \A patch \in AnyPatches :
            setState(Cur, el, def, patch).forTemplates = forTemplates
  /\ \A el \in Components : \A def \in Stateful :
       \A c \in Captured(forTemplates) :
         LET after == initInstance(Cur, el, def)
         IN TemplateOf(after.forTemplates, c) # TemplateOf(forTemplates, c)
              => /\ Owns(el, c) /\ el \notin Active
                 /\ TemplateOf(after.forTemplates, c) = dom.kids[c][1]
\* The row was activated, its items were patched to [1, 2], it was torn down
\* and its name registered again: the template is now the rendered "1".
C27_Witness ==
  /\ page = 6
  /\ Active = {2}
  /\ TemplateOf(forTemplates, 5) = Item("", <<"1">>, <<>>)
  /\ InitialKids(page, 5)[1] = Li(<<"a">>)
  /\ LastOf(log).k = "init"

\* Whether the inserted flag of a conditional binding is what the state of
\* its component element asks for, and whether the flag is the controlled
\* element being in the tree.
Desired(state, b) == IF b.negated THEN ~Truthy(state[b.key]) ELSE Truthy(state[b.key])
Settled(el, b) ==
  /\ b.inDom = Desired(InstanceOf(el).state, b)
  /\ b.inDom = (dom.where[b.el] = "tree")

\* C28: activation ends with a render pass of the conditional bindings, so
\* that in every state, from the activation on and after every patch, the
\* inserted flag of each conditional binding of an active element, which is
\* the controlled element being in the tree, is the truthiness of its key
\* (negated for a negated binding), also for a key that conditional elements
\* of the one component use in different markup forms.
C28_FlagIsTruthiness ==
  \A el \in Active : \A i \in 1..Len(BindingsOf(el)) : Settled(el, BindingsOf(el)[i])
\* What the runtime keeps to: the same for the keys whose conditional elements
\* come in forms that agree, and, for every key, for the bindings of a key
\* right after a patch that changed it.
C28_AgreedForms ==
  /\ \A el \in Active : \A i \in 1..Len(BindingsOf(el)) :
       Agreed(el, BindingsOf(el)[i].key) => Settled(el, BindingsOf(el)[i])
  /\ \A el \in Active : \A def \in Stateful : \A patch \in Patches(el) :
       LET after == setState(Cur, el, def, patch)
       IN \A i \in 1..Len(BindingsOf(el)) :
            BindingsOf(el)[i].key \in Changed(InstanceOf(el).state, patch)
            => LET b == (CHOOSE e \in after.ifBindingsStore : e.k = el).v[i]
               IN /\ b.inDom = Desired(StateAfter(after, el), b)
                  /\ b.inDom = (after.dom.where[b.el] = "tree")
\* The element with <p jsif="visible"> and <template jsif="visible"> was just
\* activated: visible is false, the <p> is in the tree and flagged inserted,
\* no conditional rendering was made, and init is being invoked.
C28_Witness ==
  /\ page = 7
  /\ Active = {1}
  /\ InstanceOf(1).state["visible"] = Bool(FALSE)
  /\ BindingsOf(1)[1].el = 2 /\ BindingsOf(1)[1].inDom /\ dom.where[2] = "tree"
  /\ Of(log, {"insert", "remove"}) = <<>>
  /\ LastOf(log).k = "init"

\* The elements a patch of a component element renders a key into: tagged
\* with the key, its own, in the document, inside none of its list containers.
Targets(el, key) ==
  {n \in Nodes(page) : /\ Pages[page][n].jsdata = key
                       /\ Owns(el, n) /\ InDocument(Cur, n)
                       /\ \A c \in Containers(el) : ~Inside(n, c)}
InNoList(n) == \A i \in 1..Len(Chain(n)) : Pages[page][Chain(n)[i]].jsfor = ""
TextScope(el, def, patch, Rendered(_)) ==
  LET after == setState(Cur, el, def, patch)
      changed == Changed(InstanceOf(el).state, patch)
  IN \A n \in Nodes(page) :
       IF Pages[page][n].jsdata \in changed /\ n \in Targets(el, Pages[page][n].jsdata)
       THEN Rendered(n)
              => after.dom.text[n] = ToText(StateAfter(after, el)[Pages[page][n].jsdata])
       ELSE after.dom.text[n] = dom.text[n]

\* C29: text rendering is scoped to the patched instance.  A patch that
\* changes a key overwrites, with the current value as text, the text of
\* every element tagged with the key that belongs to the component element
\* and is inside none of its list containers; the text of every other
\* element (in a nested component element, in one of its list containers,
\* outside the component element, or tagged with a key that did not change)
\* stays as it was.
C29_TextScope ==
  \A el \in Active : \A def \in Stateful : \A patch \in Patches(el) :
    TextScope(el, def, patch, LAMBDA n : TRUE)
\* What the runtime keeps to: the same, with the overwriting limited to the
\* elements that have no list container above them at all.
C29_OutsideLists ==
  \A el \in Active : \A def \in Stateful : \A patch \in Patches(el) :
    TextScope(el, def, patch, InNoList)
\* The row of the list handled a click that patched count from 0 to 1: the
\* text of its count element is still the 7 the server rendered.
C29_Witness ==
  /\ page = 6
  /\ 2 \in Active /\ InstanceOf(2).state["count"] = Num(1)
  /\ InstanceOf(2).hasPrev /\ InstanceOf(2).prev["count"] = Num(0)
  /\ 3 \in Targets(2, "count")
  /\ dom.text[3] = <<"7">>
  /\ Of(log, {"handler"}) # <<>> /\ Of(log, {"text"}) = <<>>

\* The event types the actions of a definition use.
TypesOf(def) ==
  IF def.hasActions
  THEN UNION {DOMAIN def.actions[a] : a \in DOMAIN def.actions}
  ELSE {}
Definitions == {e.v : e \in componentRegistry}
InUse == DEFAULT_EVENT_TYPES \cup UNION {TypesOf(def) : def \in Definitions}

\* C30: one global subscription per event type.  In every state each default
\* event type and each event type used by an action of a registered
\* definition has exactly one subscription, and no event type has more than
\* one, however many definitions, actions and registrations use it; so an
\* interaction has the effect of exactly one run of the dispatch.
C30_OneSubscription ==
  /\ \A t \in InUse : listeners[t] = 1
  /\ \A t \in DOMAIN listeners : listeners[t] = IF t \in activeEventTypes THEN 1 ELSE 0
  /\ \A name \in PageNames(page) : \A def \in PageDefs(page) :
       \A t \in DEFAULT_EVENT_TYPES \cup TypesOf(def) :
         register(Cur, name, def).listeners[t] = 1
  /\ \A event \in Events(page) :
       InDocument(Cur, event.target) => Deliver(Cur, event) = globalDispatch(Cur, event)
\* Two definitions that both use click are registered, one of them under two
\* names, mouseover is subscribed to as well, and a click just ran a handler
\* once.
C30_Witness ==
  /\ page = 1
  /\ Cardinality(componentRegistry) = 2
  /\ Cardinality({e \in componentRegistry : "click" \in TypesOf(e.v)}) = 2
  /\ \E e \in componentRegistry : "mouseover" \in TypesOf(e.v)
  /\ listeners["click"] = 1 /\ listeners["mouseover"] = 1
  /\ Len(Of(log, {"handler"})) = 1

\* An unregistered component element that is no interaction-strategy element:
\* it has no load-source, or a strategy other than interaction.
Passive(c) == NameOf(c) # "" /\ ~Registered(NameOf(c)) /\ ~Lazy(c)
OnInteraction(c) == Pages[page][c].jssrc # "" /\ Pages[page][c].jsload = "interaction"
\* What a dispatch does when the inner walk from the action element of the
\* interaction reaches the passive component element c.
PassedOver(event, c) ==
  LET a == ActionEl(event)
      D == Decider(a, event.type)
      after == Run(event)
  IN /\ \A i \in 1..Len(after.log) : after.log[i].el # c \/ after.log[i].k \notin {"buffer", "handler"}
     /\ \A j \in 1..Len(after.eventQueue) : after.eventQueue[j].compEl # c
     /\ Of(after.log, {"buffer"}) = <<>>
          => /\ after.scripts = scripts /\ after.pendingLoads = pendingLoads
             /\ after.eventQueue = eventQueue
     /\ (D # 0 /\ ~Lazy(D))
          => /\ Invoked(after.log, D, a, event.type)
             /\ Of(after.log, {"buffer", "inject"}) = <<>>
     /\ D = 0 => /\ \A i \in 1..Len(after.log) : after.log[i].actionEl # a
                 /\ \A j \in 1..Len(after.eventQueue) :
                      j > Len(eventQueue) => after.eventQueue[j].actionEl # a
     /\ Resolving(event) = <<>> => after = Cur

\* C31: an interaction whose inner walk reaches an unregistered component
\* element that has no load-source, or a strategy other than interaction (its
\* load outstanding or not), is not buffered for that element and starts no
\* load for it: the walk goes on to the enclosing components, the handler of
\* the first that has one for the action is invoked, and when none decides
\* and no other action-marked element resolves, nothing happens at all.  No
\* entry of the queue is ever for such an element, so that a registration
\* invokes no handler, and a load completion invokes handlers only for
\* interaction-strategy elements.
C31_NeverBuffered ==
  /\ \A j \in 1..Len(eventQueue) : OnInteraction(eventQueue[j].compEl)
  /\ \A event \in Possible : \A c \in Components :
       (Passive(c) /\ Reaches(event, c)) => PassedOver(event, c)
  /\ \A name \in PageNames(page) : \A def \in PageDefs(page) :
       /\ Of(register(Cur, name, def).log, {"handler"}) = <<>>
       /\ register(Cur, name, def).eventQueue = eventQueue
  /\ \A i \in Loading : \A body \in ScriptBodies(page) :
       \A k \in 1..Len(onload(Cur, i, body).log) :
         onload(Cur, i, body).log[k].k = "handler"
           => OnInteraction(onload(Cur, i, body).log[k].el)
\* An interaction on the button of Inner, whose load is outstanding and whose
\* strategy is not interaction, was just handled by the enclosing Outer;
\* nothing is queued.
C31_Witness ==
  /\ page \in {8, 9, 10}
  /\ Passive(2) /\ Pages[page][2].jssrc # ""
  /\ \E i \in 1..Len(scripts) : scripts[i].name = "Inner" /\ scripts[i].status = "loading"
  /\ Invoked(log, 1, 3, "click")
  /\ eventQueue = <<>>

\* Whether a list of effects has a handler call for the component element c,
\* and whether it has the replay of a queue entry.
Calls(l, c) == \E k \in 1..Len(l) : l[k].k = "handler" /\ l[k].el = c
Replays(l, entry) == \E k \in 1..Len(l) : Replayed(l[k], entry)
\* An interaction that arrives now is delivered to a handler of the component
\* element of an entry that is queued, and a load completion after it replays
\* the entry: the later interaction is handled before the earlier one.
Overtaken(entry, event, i, body) ==
  /\ Calls(Run(event).log, entry.compEl)
  /\ Replays(onload(Run(event), i, body).log, entry)

\* C32: per component element, handlers see interactions in arrival order.
\* In every state, for every interaction buffered for a component element and
\* still queued, no interaction that arrives now is delivered to a handler of
\* that element before a load completion replays the queued one, whether or
\* not the name of the component was registered before its load completed.
C32_ArrivalOrder ==
  \A j \in 1..Len(eventQueue) : \A event \in Possible :
    \A i \in Loading : \A body \in ScriptBodies(page) :
      ~Overtaken(eventQueue[j], event, i, body)
\* What the runtime keeps to: while the name of a queued entry is
\* unregistered, no interaction is delivered to a handler of its element and
\* the queue only grows at its tail; and a load completion replays the
\* entries of its name in the order of the queue.
C32_WhileUnregistered ==
  /\ \A j \in 1..Len(eventQueue) : \A event \in Possible :
       ~Registered(eventQueue[j].compName)
         => /\ ~Calls(Run(event).log, eventQueue[j].compEl)
            /\ Extends(Run(event).eventQueue, eventQueue)
  /\ \A i \in Loading : \A body \in ScriptBodies(page) :
       ReplaysOf(Of(onload(Cur, i, body).log, {"handler"}),
                 EntriesOf(eventQueue, scripts[i].name))
\* A click on the button of Inner was buffered and its load is outstanding;
\* page code registered Inner, and a second click on the button was just
\* delivered to the handler of Inner while the first is still queued.
C32_Witness ==
  /\ page = 1
  /\ eventQueue # <<>> /\ eventQueue[1].compEl = 3 /\ eventQueue[1].actionEl = 4
  /\ \E i \in Loading : scripts[i].name = "Inner"
  /\ Handles("Inner", "x", "click")
  /\ Invoked(log, 3, 4, "click")
  /\ Of(log, {"resolve"}) = <<>>
  /\ \E i \in Loading : Replays(onload(Cur, i, <<>>).log, eventQueue[1])

====
